---- MODULE Spec2Model ----
(***************************************************************************)
(* Model of the input-validation and safe-path layer of the Advent of Code *)
(* scaffolding tool: the value objects Year, Day, Language and SafePath    *)
(* (src/domain) and the folder operations built on them                    *)
(* (src/utils/folderManager.js).                                           *)
(*                                                                         *)
(* A JavaScript string is a sequence of one-character strings, so that     *)
(* prefix tests, parsing and formatting are computed character by          *)
(* character as the code computes them.                                    *)
(***************************************************************************)
EXTENDS Integers, Sequences, FiniteSets, TLC

VARIABLES
    cwd,        \* process.cwd(): the ambient working directory
    sp,         \* the SafePath instance at hand (ok = FALSE: none exists)
    spSegs,     \* every segment that went into sp (constructor + appends)
    spLast,     \* the last SafePath operation and its outcome
    nAppends,   \* number of append calls made so far
    voRaw,      \* the raw value handed to a value-object constructor
    vo,         \* the outcome: the instance constructed, or the error thrown
    voLast,     \* the last operation made on the instance vo, and what it returned
    fs,         \* the filesystem: its directories and its files with their content
    fmLast,     \* the last folderManager call: arguments, calls made, outcome
    nOps,       \* number of folderManager calls made so far
    nFailed     \* number of those calls that threw

vars == <<cwd, sp, spSegs, spLast, nAppends, voRaw, vo, voLast, fs, fmLast, nOps, nFailed>>

----------------------------------------------------------------------------
(* Bounds *)

MaxSegs == 2          \* segments given to one SafePath, constructor and appends together
MaxAppends == 2       \* append calls in one behaviour
MaxRawLen == 4        \* characters in a raw year or day string
MaxOps == 2           \* folderManager calls in one behaviour
MaxLangLen == 3       \* characters in a short raw language name
MaxLines == 3         \* lines of a generated puzzle input

----------------------------------------------------------------------------
(* Strings *)

SEP == "/"

\* All strings over alphabet cs of length at most n.
StringsUpTo(cs, n) == UNION {[1..k -> cs] : k \in 0..n}

\* All lists of at most n elements of set S.
ListsUpTo(S, n) == UNION {[1..k -> S] : k \in 0..n}

startsWith(s, p) ==
    /\ Len(p) <= Len(s)
    /\ SubSeq(s, 1, Len(p)) = p

\* s.includes(p)
includes(s, p) ==
    \E i \in 1..(Len(s) - Len(p) + 1) : SubSeq(s, i, i + Len(p) - 1) = p

----------------------------------------------------------------------------
(* Node's posix path module, as SafePath.js uses it *)

\* s.split('/'): the components between separators, empty ones included.
RECURSIVE SplitFrom(_, _, _, _)
SplitFrom(s, i, cur, acc) ==
    IF i > Len(s) THEN Append(acc, cur)
    ELSE IF s[i] = SEP THEN SplitFrom(s, i + 1, <<>>, Append(acc, cur))
    ELSE SplitFrom(s, i + 1, Append(cur, s[i]), acc)

Split(s) == SplitFrom(s, 1, <<>>, <<>>)

\* comps.join('/')
RECURSIVE JoinSep(_)
JoinSep(comps) ==
    IF Len(comps) = 0 THEN <<>>
    ELSE IF Len(comps) = 1 THEN comps[1]
    ELSE comps[1] \o <<SEP>> \o JoinSep(Tail(comps))

DOT == <<".">>
DOTDOT == <<".", ".">>

\* normalizeString: resolves "." and ".." components left to right.
RECURSIVE NormComps(_, _, _)
NormComps(comps, allowAboveRoot, res) ==
    IF Len(comps) = 0 THEN res
    ELSE LET c == Head(comps)
             rest == Tail(comps)
         IN IF c = <<>> \/ c = DOT THEN NormComps(rest, allowAboveRoot, res)
            ELSE IF c = DOTDOT
                 THEN IF Len(res) > 0 /\ res[Len(res)] # DOTDOT
                      THEN NormComps(rest, allowAboveRoot, SubSeq(res, 1, Len(res) - 1))
                      ELSE IF allowAboveRoot
                           THEN NormComps(rest, allowAboveRoot, Append(res, c))
                           ELSE NormComps(rest, allowAboveRoot, res)
            ELSE NormComps(rest, allowAboveRoot, Append(res, c))

normalizeString(p, allowAboveRoot) == JoinSep(NormComps(Split(p), allowAboveRoot, <<>>))

isAbsolute(p) == Len(p) > 0 /\ p[1] = SEP

\* path.normalize(p)
normalize(p) ==
    IF Len(p) = 0 THEN DOT
    ELSE LET abs == isAbsolute(p)
             trailing == p[Len(p)] = SEP
             n == normalizeString(p, ~abs)
         IN IF Len(n) = 0
            THEN (IF abs THEN <<SEP>> ELSE IF trailing THEN <<".", SEP>> ELSE DOT)
            ELSE (IF abs THEN <<SEP>> ELSE <<>>) \o n \o (IF trailing THEN <<SEP>> ELSE <<>>)

\* path.join(...args): the non-empty arguments joined by '/', then normalized.
join(args) ==
    LET nonEmpty == SelectSeq(args, LAMBDA a : Len(a) > 0)
    IN IF Len(nonEmpty) = 0 THEN DOT ELSE normalize(JoinSep(nonEmpty))

\* Resolution that takes a relative path from the root, whatever wd is.
resolve_FromRoot(wd, p) ==
    LET full == IF isAbsolute(p) THEN p ELSE <<SEP>> \o p
    IN <<SEP>> \o normalizeString(full, FALSE)

\* path.resolve(p) with one argument, in working directory wd (absolute).
resolve(wd, p) ==
    LET full == IF isAbsolute(p) THEN p
                ELSE IF Len(p) = 0 THEN wd
                ELSE wd \o <<SEP>> \o p
    IN <<SEP>> \o normalizeString(full, FALSE)

\* Length of the longest common prefix of two component lists.
RECURSIVE CommonLen(_, _)
CommonLen(a, b) ==
    IF Len(a) = 0 \/ Len(b) = 0 \/ Head(a) # Head(b) THEN 0
    ELSE 1 + CommonLen(Tail(a), Tail(b))

\* The named components of an absolute normalized path ("/" has none).
Components(p) == SelectSeq(Split(p), LAMBDA c : Len(c) > 0)

\* path.relative(from, to)
relative(wd, from, to) ==
    LET f == resolve(wd, from)
        t == resolve(wd, to)
        fc == Components(f)
        tc == Components(t)
        k == CommonLen(fc, tc)
    IN IF f = t THEN <<>>
       ELSE JoinSep([i \in 1..(Len(fc) - k) |-> DOTDOT] \o SubSeq(tc, k + 1, Len(tc)))

----------------------------------------------------------------------------
(* SafePath (src/domain/SafePath.js) *)

\* The boundary test without the separator: a plain string-prefix test.
validatePathWithinBase_NoSep(resolvedPath, basePath) ==
    \/ startsWith(resolvedPath, basePath)
    \/ resolvedPath = basePath

\* TRUE when validatePathWithinBase returns, FALSE when it throws.
validatePathWithinBase(resolvedPath, basePath) ==
    \/ startsWith(resolvedPath, basePath \o <<SEP>>)
    \/ resolvedPath = basePath

NoError == [name |-> "none", resolved |-> <<>>, base |-> <<>>]

\* The message with its two paths interchanged.
PathTraversalError_Swapped(r, b) == [name |-> "PathTraversal", resolved |-> b, base |-> r]

\* `Path traversal detected: resolved path "<r>" is outside base path "<b>"`
PathTraversalError(r, b) == [name |-> "PathTraversal", resolved |-> r, base |-> b]

NoSafePath == [ok |-> FALSE, basePath |-> <<>>, resolvedPath |-> <<>>, error |-> NoError]

\* new SafePath(basePath, ...segments): the frozen instance, or the error thrown.
SafePathNew(wd, basePath, segments) ==
    LET b == resolve(wd, basePath)
        targetPath == join(<<b>> \o segments)
        r == resolve(wd, targetPath)
    IN IF validatePathWithinBase(r, b)
       THEN [ok |-> TRUE, basePath |-> b, resolvedPath |-> r, error |-> NoError]
       ELSE [ok |-> FALSE, basePath |-> <<>>, resolvedPath |-> <<>>,
             error |-> PathTraversalError(r, b)]

\* append that takes the receiver's path as the new base.
SafePathAppend_FromTarget(wd, p, segments) ==
    SafePathNew(wd, p.resolvedPath, segments)

\* p.append(...segments)
SafePathAppend(wd, p, segments) ==
    LET relativePath == relative(wd, p.basePath, p.resolvedPath)
    IN SafePathNew(wd, p.basePath, <<relativePath>> \o segments)

toString(p) == p.resolvedPath
getValue(p) == p.resolvedPath
getBasePath(p) == p.basePath

----------------------------------------------------------------------------
(* JavaScript values and the conversions the validators apply to them *)

\* A value is tagged with its kind: a string carries its characters in s, a
\* finite number carries ten times its value in n (one decimal place), a
\* boolean carries 0 or 1 in n.
JsString(chars) == [t |-> "string", s |-> chars, n |-> 0]
JsTenths(k) == [t |-> "number", s |-> <<>>, n |-> k]
JsInt(k) == JsTenths(10 * k)
JsNaN == [t |-> "NaN", s |-> <<>>, n |-> 0]
JsInfinity == [t |-> "Infinity", s |-> <<>>, n |-> 0]
JsNegInfinity == [t |-> "-Infinity", s |-> <<>>, n |-> 0]
JsNull == [t |-> "null", s |-> <<>>, n |-> 0]
JsUndefined == [t |-> "undefined", s |-> <<>>, n |-> 0]
JsBool(b) == [t |-> "boolean", s |-> <<>>, n |-> IF b THEN 1 ELSE 0]
\* The array [k] of one whole number: an object, told from every other
\* array by its identity id and open to assignment by whoever holds it.
JsArray(id, k) == [t |-> "array", s |-> <<id>>, n |-> 10 * k]
\* The same array once its element is a string: the characters follow id.
JsArrayOfString(id, chars) == [t |-> "array", s |-> <<id>> \o chars, n |-> 0]

Digits == <<"0", "1", "2", "3", "4", "5", "6", "7", "8", "9">>
IsDigit(c) == \E i \in 1..10 : Digits[i] = c
DigitVal(c) == (CHOOSE i \in 1..10 : Digits[i] = c) - 1
WhiteSpace == {" ", "\t", "\n", "\r"}

\* Decimal digits of a natural number.
RECURSIVE NatToStr(_)
NatToStr(k) ==
    IF k < 10 THEN <<Digits[k + 1]>>
    ELSE NatToStr(k \div 10) \o <<Digits[(k % 10) + 1]>>

Chars_NaN == <<"N", "a", "N">>
Chars_Infinity == <<"I", "n", "f", "i", "n", "i", "t", "y">>
Chars_null == <<"n", "u", "l", "l">>
Chars_undefined == <<"u", "n", "d", "e", "f", "i", "n", "e", "d">>
Chars_true == <<"t", "r", "u", "e">>
Chars_false == <<"f", "a", "l", "s", "e">>

\* String(v), also what a template literal `${v}` produces.
String(v) ==
    CASE v.t = "string" -> v.s
      [] v.t = "array" /\ Len(v.s) > 1 -> Tail(v.s)
      [] v.t \in {"number", "array"} ->
            LET a == IF v.n < 0 THEN 0 - v.n ELSE v.n
            IN (IF v.n < 0 THEN <<"-">> ELSE <<>>)
               \o NatToStr(a \div 10)
               \o (IF a % 10 = 0 THEN <<>> ELSE <<".", Digits[(a % 10) + 1]>>)
      [] v.t = "NaN" -> Chars_NaN
      [] v.t = "Infinity" -> Chars_Infinity
      [] v.t = "-Infinity" -> <<"-">> \o Chars_Infinity
      [] v.t = "null" -> Chars_null
      [] v.t = "undefined" -> Chars_undefined
      [] v.t = "boolean" -> IF v.n = 1 THEN Chars_true ELSE Chars_false

\* Number(v) for the non-string values the validators pass to it; also the
\* coercion that isNaN, isFinite, < and > apply to a non-number operand.
Number(v) ==
    CASE v.t \in {"number", "NaN", "Infinity", "-Infinity"} -> v
      [] v.t = "null" -> JsInt(0)
      [] v.t = "undefined" -> JsNaN
      [] v.t = "boolean" -> JsInt(v.n)
      [] v.t = "array" -> IF Len(v.s) > 1 THEN JsNaN ELSE JsTenths(v.n)
      [] v.t = "string" -> JsNaN

isNaN(v) == Number(v).t = "NaN"
isFinite(v) == Number(v).t = "number"

\* v < k and v > k for an integer k
JsLess(v, k) ==
    \/ Number(v).t = "-Infinity"
    \/ Number(v).t = "number" /\ Number(v).n < 10 * k
JsGreater(v, k) ==
    \/ Number(v).t = "Infinity"
    \/ Number(v).t = "number" /\ Number(v).n > 10 * k

\* Index of the first character at or after i that is not whitespace.
RECURSIVE SkipSpace(_, _)
SkipSpace(s, i) ==
    IF i <= Len(s) /\ s[i] \in WhiteSpace THEN SkipSpace(s, i + 1) ELSE i

\* Value of the run of digits that starts at i, given the value acc so far.
RECURSIVE DigitRun(_, _, _)
DigitRun(s, i, acc) ==
    IF i <= Len(s) /\ IsDigit(s[i]) THEN DigitRun(s, i + 1, 10 * acc + DigitVal(s[i]))
    ELSE acc

\* parseInt(s, 10): leading whitespace, an optional sign, then the longest
\* run of digits; whatever follows is ignored; no digit gives NaN.
parseInt(s) ==
    LET i == SkipSpace(s, 1)
        signed == i <= Len(s) /\ s[i] \in {"-", "+"}
        j == IF signed THEN i + 1 ELSE i
    IN IF j <= Len(s) /\ IsDigit(s[j])
       THEN JsInt((IF signed /\ s[i] = "-" THEN -1 ELSE 1) * DigitRun(s, j, 0))
       ELSE JsNaN

\* s.trim()
RECURSIVE trimEnd(_)
trimEnd(s) ==
    IF Len(s) > 0 /\ s[Len(s)] \in WhiteSpace THEN trimEnd(SubSeq(s, 1, Len(s) - 1)) ELSE s

trim(s) == trimEnd(SubSeq(s, SkipSpace(s, 1), Len(s)))

\* s.padStart(2, '0')
padStart2(s) == IF Len(s) = 0 THEN <<"0", "0">> ELSE IF Len(s) = 1 THEN <<"0">> \o s ELSE s

----------------------------------------------------------------------------
(* Errors thrown by the validators *)

NoVError == [name |-> "none", type |-> "", text |-> <<>>, min |-> 0, max |-> 0]

\* The message printing the parsed number in place of the value given.
NotAValidNumber_Parsed(type, value) ==
    [name |-> "is not a valid number", type |-> type, text |-> Chars_NaN, min |-> 0, max |-> 0]

\* `Invalid ${type}: "${value}" is not a valid number`
NotAValidNumber(type, value) ==
    [name |-> "is not a valid number", type |-> type, text |-> String(value), min |-> 0, max |-> 0]

\* `Invalid ${type}: ${num} must be between ${min} and ${max}`
MustBeBetween(type, num, min, max) ==
    [name |-> "must be between", type |-> type, text |-> String(num), min |-> min, max |-> max]

\* `Invalid ${type}: "${value}" contains illegal path characters`
IllegalPathCharacters(type, value) ==
    [name |-> "contains illegal path characters", type |-> type, text |-> String(value),
     min |-> 0, max |-> 0]

\* `Invalid year format: "${value}" must be exactly 4 digits`
NotFourDigits(value) ==
    [name |-> "must be exactly 4 digits", type |-> "year", text |-> String(value),
     min |-> 0, max |-> 0]

Returned(num) == [ok |-> TRUE, num |-> num, error |-> NoVError]
Thrown(err) == [ok |-> FALSE, num |-> JsUndefined, error |-> err]

----------------------------------------------------------------------------
(* Shared validators (src/domain/validators.js) *)

\* The validator without its test for null and undefined.
validateNumberInRange_NoNullTest(value, min, max, type) ==
    LET num == IF value.t = "string" THEN parseInt(value.s) ELSE Number(value)
    IN IF isNaN(num) \/ ~isFinite(num) THEN Thrown(NotAValidNumber(type, value))
       ELSE IF JsLess(num, min) \/ JsGreater(num, max)
            THEN Thrown(MustBeBetween(type, num, min, max))
       ELSE Returned(num)

\* Range test with the lower bound excluded.
validateNumberInRange_MinExclusive(value, min, max, type) ==
    IF value.t \in {"null", "undefined"} THEN Thrown(NotAValidNumber(type, value))
    ELSE LET num == IF value.t = "string" THEN parseInt(value.s) ELSE Number(value)
         IN IF isNaN(num) \/ ~isFinite(num) THEN Thrown(NotAValidNumber(type, value))
            ELSE IF ~JsGreater(num, min) \/ JsGreater(num, max)
                 THEN Thrown(MustBeBetween(type, num, min, max))
            ELSE Returned(num)

validateNumberInRange(value, min, max, type) ==
    IF value.t \in {"null", "undefined"} THEN Thrown(NotAValidNumber(type, value))
    ELSE LET num == IF value.t = "string" THEN parseInt(value.s) ELSE Number(value)
         IN IF isNaN(num) \/ ~isFinite(num) THEN Thrown(NotAValidNumber(type, value))
            ELSE IF JsLess(num, min) \/ JsGreater(num, max)
                 THEN Thrown(MustBeBetween(type, num, min, max))
            ELSE Returned(num)

\* TRUE when validateNoPathTraversal returns, FALSE when it throws.
validateNoPathTraversal(value) ==
    LET str == trim(String(value))
    IN ~(includes(str, <<"/">>) \/ includes(str, <<"\\">>) \/ includes(str, <<".", ".">>))

----------------------------------------------------------------------------
(* Year (src/domain/Year.js) *)

YEAR_MIN == 2015
YEAR_MAX == 2099

\* /^\d{4}$/.test(s)
TestFourDigits(s) == Len(s) = 4 /\ \A i \in 1..4 : IsDigit(s[i])

NoValueObject == [ok |-> FALSE, class |-> "none", value |-> JsUndefined, error |-> NoVError]

\* new Year(value): the frozen instance holding #value, or the error thrown.
YearNew(value) ==
    LET year == validateNumberInRange(value, YEAR_MIN, YEAR_MAX, "year")
        yearString == trim(String(value))
    IN IF ~year.ok
       THEN [ok |-> FALSE, class |-> "Year", value |-> JsUndefined, error |-> year.error]
       ELSE IF ~TestFourDigits(yearString)
       THEN [ok |-> FALSE, class |-> "Year", value |-> JsUndefined, error |-> NotFourDigits(value)]
       ELSE IF ~validateNoPathTraversal(value)
       THEN [ok |-> FALSE, class |-> "Year", value |-> JsUndefined,
             error |-> IllegalPathCharacters("year", value)]
       ELSE [ok |-> TRUE, class |-> "Year", value |-> year.num, error |-> NoVError]

Year_toNumber(y) == y.value
Year_toString(y) == String(y.value)
Year_toFolderName(y) == Year_toString(y)

----------------------------------------------------------------------------
(* Day (src/domain/Day.js), with its own copies of the two validators *)

DAY_MIN == 1
DAY_MAX == 25

Day_validateNumberInRange(value, min, max, type) ==
    LET num == IF value.t = "string" THEN parseInt(value.s) ELSE value
    IN IF isNaN(num) THEN Thrown(NotAValidNumber(type, value))
       ELSE IF JsLess(num, min) \/ JsGreater(num, max)
            THEN Thrown(MustBeBetween(type, num, min, max))
       ELSE Returned(num)

\* The character test without the forward slash.
Day_validateNoPathTraversal_NoSlash(value) ==
    LET str == trim(String(value))
    IN ~(includes(str, <<"\\">>) \/ includes(str, <<".", ".">>))

Day_validateNoPathTraversal(value) ==
    LET str == trim(String(value))
    IN ~(includes(str, <<"/">>) \/ includes(str, <<"\\">>) \/ includes(str, <<".", ".">>))

\* new Day(value)
DayNew(value) ==
    LET day == Day_validateNumberInRange(value, DAY_MIN, DAY_MAX, "day")
    IN IF ~day.ok
       THEN [ok |-> FALSE, class |-> "Day", value |-> JsUndefined, error |-> day.error]
       ELSE IF ~Day_validateNoPathTraversal(value)
       THEN [ok |-> FALSE, class |-> "Day", value |-> JsUndefined,
             error |-> IllegalPathCharacters("day", value)]
       ELSE [ok |-> TRUE, class |-> "Day", value |-> day.num, error |-> NoVError]

Day_toNumber(d) == d.value
\* The day as text, not padded.
Day_toPaddedString_Unpadded(d) == String(d.value)

Day_toPaddedString(d) == padStart2(String(d.value))
Day_toFolderName(d) == <<"d", "a", "y">> \o Day_toPaddedString(d)

----------------------------------------------------------------------------
(* Language (src/domain/Language.js) *)

UpperCase == <<"A", "B", "C", "D", "E", "F", "G", "H", "I", "J", "K", "L", "M",
               "N", "O", "P", "Q", "R", "S", "T", "U", "V", "W", "X", "Y", "Z">>
LowerCase == <<"a", "b", "c", "d", "e", "f", "g", "h", "i", "j", "k", "l", "m",
               "n", "o", "p", "q", "r", "s", "t", "u", "v", "w", "x", "y", "z">>

IsUpper(c) == \E i \in 1..26 : UpperCase[i] = c
IsLower(c) == \E i \in 1..26 : LowerCase[i] = c

\* The string left as it was given.
toLowerCase_Identity(s) == s

\* s.toLowerCase()
toLowerCase(s) ==
    [i \in 1..Len(s) |->
        IF IsUpper(s[i]) THEN LowerCase[CHOOSE k \in 1..26 : UpperCase[k] = s[i]] ELSE s[i]]

LANGUAGE_MAX_LENGTH == 50

\* /^[a-zA-Z0-9+#_-]+$/.test(s)
TestLanguageChars(s) ==
    /\ Len(s) > 0
    /\ \A i \in 1..Len(s) :
          IsLower(s[i]) \/ IsUpper(s[i]) \/ IsDigit(s[i]) \/ s[i] \in {"+", "#", "_", "-"}

LanguageError(name, value) ==
    [name |-> name, type |-> "language", text |-> String(value), min |-> 0, max |-> 0]

\* The format test without the test of the first character.
validateLanguageFormat_AnyStart(value) ==
    IF value.t # "string" \/ Len(trim(value.s)) = 0
    THEN Thrown([name |-> "must be a non-empty string", type |-> "language",
                 text |-> <<>>, min |-> 0, max |-> 0])
    ELSE LET trimmed == trim(value.s)
         IN IF ~TestLanguageChars(trimmed)
            THEN Thrown(LanguageError("contains illegal characters", value))
            ELSE IF Len(trimmed) > LANGUAGE_MAX_LENGTH
            THEN Thrown(LanguageError("is too long", value))
            ELSE Returned(JsString(trimmed))

\* validateLanguageFormat(value): returns the trimmed string or throws.
validateLanguageFormat(value) ==
    IF value.t # "string" \/ Len(trim(value.s)) = 0
    THEN Thrown([name |-> "must be a non-empty string", type |-> "language",
                 text |-> <<>>, min |-> 0, max |-> 0])
    ELSE LET trimmed == trim(value.s)
         IN IF ~TestLanguageChars(trimmed)
            THEN Thrown(LanguageError("contains illegal characters", value))
            ELSE IF startsWith(trimmed, <<".">>) \/ startsWith(trimmed, <<"-">>)
            THEN Thrown(LanguageError("cannot start with . or -", value))
            ELSE IF Len(trimmed) > LANGUAGE_MAX_LENGTH
            THEN Thrown(LanguageError("is too long", value))
            ELSE Returned(JsString(trimmed))

\* new Language(value): the instance holding #value and #normalizedValue.
LanguageNew(value) ==
    LET trimmed == validateLanguageFormat(value)
    IN IF ~trimmed.ok
       THEN [ok |-> FALSE, class |-> "Language", value |-> JsUndefined,
             normalizedValue |-> <<>>, error |-> trimmed.error]
       ELSE [ok |-> TRUE, class |-> "Language", value |-> trimmed.num,
             normalizedValue |-> toLowerCase(trimmed.num.s), error |-> NoVError]

Language_toString(l) == l.value.s
Language_toNormalized(l) == l.normalizedValue
Language_toFolderName(l) == l.normalizedValue

----------------------------------------------------------------------------
(* The message of each error, as its template literal renders it *)

QUOTE == <<"\"">>

MSG_Invalid == <<"I", "n", "v", "a", "l", "i", "d", " ">>
MSG_colon == <<":", " ">>
MSG_is_not_a_valid_number == <<" ", "i", "s", " ", "n", "o", "t", " ", "a", " ", "v", "a", "l", "i", "d", " ", "n",
      "u", "m", "b", "e", "r">>
MSG_must_be_between == <<" ", "m", "u", "s", "t", " ", "b", "e", " ", "b", "e", "t", "w", "e", "e", "n", " ">>
MSG_and == <<" ", "a", "n", "d", " ">>
MSG_contains_illegal_path_characters ==
    <<" ", "c", "o", "n", "t", "a", "i", "n", "s", " ", "i", "l", "l", "e", "g", "a", "l",
      " ", "p", "a", "t", "h", " ", "c", "h", "a", "r", "a", "c", "t", "e", "r", "s">>
MSG_Invalid_year_format == <<"I", "n", "v", "a", "l", "i", "d", " ", "y", "e", "a", "r", " ", "f", "o", "r", "m",
      "a", "t", ":", " ">>
MSG_must_be_exactly_4_digits == <<" ", "m", "u", "s", "t", " ", "b", "e", " ", "e", "x", "a", "c", "t", "l", "y", " ",
      "4", " ", "d", "i", "g", "i", "t", "s">>
MSG_must_be_a_non_empty_string ==
    <<"I", "n", "v", "a", "l", "i", "d", " ", "l", "a", "n", "g", "u", "a", "g", "e", ":",
      " ", "m", "u", "s", "t", " ", "b", "e", " ", "a", " ", "n", "o", "n", "-", "e",
      "m", "p", "t", "y", " ", "s", "t", "r", "i", "n", "g">>
MSG_contains_illegal_characters ==
    <<" ", "c", "o", "n", "t", "a", "i", "n", "s", " ", "i", "l", "l", "e", "g", "a", "l",
      " ", "c", "h", "a", "r", "a", "c", "t", "e", "r", "s", ".", " ", "O", "n", "l",
      "y", " ", "a", "l", "p", "h", "a", "n", "u", "m", "e", "r", "i", "c", ",", " ",
      "+", ",", " ", "#", ",", " ", "-", ",", " ", "a", "n", "d", " ", "_", " ", "a",
      "r", "e", " ", "a", "l", "l", "o", "w", "e", "d">>
MSG_cannot_start == <<" ", "c", "a", "n", "n", "o", "t", " ", "s", "t", "a", "r", "t", " ", "w", "i", "t",
      "h", " ", ".", " ", "o", "r", " ", "-">>
MSG_is_too_long == <<" ", "i", "s", " ", "t", "o", "o", " ", "l", "o", "n", "g", " ", "(", "m", "a", "x",
      " ", "5", "0", " ", "c", "h", "a", "r", "a", "c", "t", "e", "r", "s", ")">>
MSG_Path_traversal_detected ==
    <<"P", "a", "t", "h", " ", "t", "r", "a", "v", "e", "r", "s", "a", "l", " ", "d", "e",
      "t", "e", "c", "t", "e", "d", ":", " ", "r", "e", "s", "o", "l", "v", "e", "d",
      " ", "p", "a", "t", "h", " ">>
MSG_is_outside_base_path == <<" ", "i", "s", " ", "o", "u", "t", "s", "i", "d", "e", " ", "b", "a", "s", "e", " ",
      "p", "a", "t", "h", " ">>

\* The kind as it is written into a message.
TypeChars(type) ==
    CASE type = "year" -> <<"y", "e", "a", "r">>
      [] type = "day" -> <<"d", "a", "y">>
      [] type = "language" -> <<"l", "a", "n", "g", "u", "a", "g", "e">>
      [] OTHER -> <<>>

\* error.message of an error thrown by a validator or a value object
message(e) ==
    CASE e.name = "is not a valid number" ->
            MSG_Invalid \o TypeChars(e.type) \o MSG_colon \o QUOTE \o e.text \o QUOTE
                \o MSG_is_not_a_valid_number
      [] e.name = "must be between" ->
            MSG_Invalid \o TypeChars(e.type) \o MSG_colon \o e.text \o MSG_must_be_between
                \o NatToStr(e.min) \o MSG_and \o NatToStr(e.max)
      [] e.name = "contains illegal path characters" ->
            MSG_Invalid \o TypeChars(e.type) \o MSG_colon \o QUOTE \o e.text \o QUOTE
                \o MSG_contains_illegal_path_characters
      [] e.name = "must be exactly 4 digits" ->
            MSG_Invalid_year_format \o QUOTE \o e.text \o QUOTE \o MSG_must_be_exactly_4_digits
      [] e.name = "must be a non-empty string" -> MSG_must_be_a_non_empty_string
      [] e.name = "contains illegal characters" ->
            MSG_Invalid \o TypeChars(e.type) \o MSG_colon \o QUOTE \o e.text \o QUOTE
                \o MSG_contains_illegal_characters
      [] e.name = "cannot start with . or -" ->
            MSG_Invalid \o TypeChars(e.type) \o MSG_colon \o QUOTE \o e.text \o QUOTE
                \o MSG_cannot_start
      [] e.name = "is too long" ->
            MSG_Invalid \o TypeChars(e.type) \o MSG_colon \o QUOTE \o e.text \o QUOTE
                \o MSG_is_too_long
      [] OTHER -> <<>>

\* error.message of the error validatePathWithinBase throws
pathMessage(e) ==
    MSG_Path_traversal_detected \o QUOTE \o e.resolved \o QUOTE
        \o MSG_is_outside_base_path \o QUOTE \o e.base \o QUOTE

----------------------------------------------------------------------------
(* Language templates (languageTemplates module, src/cli/setup.js 84-160) *)

STR_javascript == <<"j", "a", "v", "a", "s", "c", "r", "i", "p", "t">>
STR_python == <<"p", "y", "t", "h", "o", "n">>
STR_go == <<"g", "o">>
STR_typescript == <<"t", "y", "p", "e", "s", "c", "r", "i", "p", "t">>
STR_constructor == <<"c", "o", "n", "s", "t", "r", "u", "c", "t", "o", "r">>
STR___proto__ == <<"_", "_", "p", "r", "o", "t", "o", "_", "_">>

FILE_solution_js == <<"s", "o", "l", "u", "t", "i", "o", "n", ".", "j", "s">>
FILE_solution_test_js == <<"s", "o", "l", "u", "t", "i", "o", "n", ".", "t", "e", "s", "t", ".", "j", "s">>
FILE_solution_py == <<"s", "o", "l", "u", "t", "i", "o", "n", ".", "p", "y">>
FILE_test_solution_py == <<"t", "e", "s", "t", "_", "s", "o", "l", "u", "t", "i", "o", "n", ".", "p", "y">>
FILE_solution_go == <<"s", "o", "l", "u", "t", "i", "o", "n", ".", "g", "o">>
FILE_solution_test_go == <<"s", "o", "l", "u", "t", "i", "o", "n", "_", "t", "e", "s", "t", ".", "g", "o">>
FILE_solution_ts == <<"s", "o", "l", "u", "t", "i", "o", "n", ".", "t", "s">>
FILE_solution_test_ts == <<"s", "o", "l", "u", "t", "i", "o", "n", ".", "t", "e", "s", "t", ".", "t", "s">>
FILE_solution_txt == <<"s", "o", "l", "u", "t", "i", "o", "n", ".", "t", "x", "t">>

\* The content of a file: what kind of text it is and the values put into it.
Content(kind, a, b) == [kind |-> kind, a |-> a, b |-> b]

TemplateFile(key, filename) ==
    [filename |-> filename, content |-> Content("template", key, filename)]

\* The own properties of the templates object.
templates ==
    [k \in {STR_javascript, STR_python, STR_go, STR_typescript} |->
        CASE k = STR_javascript ->
                <<TemplateFile(k, FILE_solution_js), TemplateFile(k, FILE_solution_test_js)>>
          [] k = STR_python ->
                <<TemplateFile(k, FILE_solution_py), TemplateFile(k, FILE_test_solution_py)>>
          [] k = STR_go ->
                <<TemplateFile(k, FILE_solution_go), TemplateFile(k, FILE_solution_test_go)>>
          [] k = STR_typescript ->
                <<TemplateFile(k, FILE_solution_ts), TemplateFile(k, FILE_solution_test_ts)>>]

\* Lower-case property names every object inherits from Object.prototype;
\* templates[name] is a truthy value for them, and it is not an array.
InheritedKeys == {STR_constructor, STR___proto__}

\* getLanguageTemplate(language): templates[language.toLowerCase()] || null
getLanguageTemplate(language) ==
    LET normalizedLanguage == toLowerCase(language)
    IN IF normalizedLanguage \in DOMAIN templates
       THEN [isNull |-> FALSE, isArray |-> TRUE, files |-> templates[normalizedLanguage]]
       ELSE IF normalizedLanguage \in InheritedKeys
       THEN [isNull |-> FALSE, isArray |-> FALSE, files |-> <<>>]
       ELSE [isNull |-> TRUE, isArray |-> FALSE, files |-> <<>>]

\* getGenericTemplate(language)
getGenericTemplate(language) ==
    [isNull |-> FALSE, isArray |-> TRUE,
     files |-> <<[filename |-> FILE_solution_txt,
                  content |-> Content("generic", language, FILE_solution_txt)]>>]

----------------------------------------------------------------------------
(* The filesystem calls folderManager.js makes *)

\* The absolute path with the given components.
PathOf(comps) == <<SEP>> \o JoinSep(comps)

\* p and every ancestor directory of p, the root included.
AncestorsOrSelf(p) ==
    {PathOf(SubSeq(Components(p), 1, k)) : k \in 0..Len(Components(p))}

\* The directory that contains p.
dirname(p) == PathOf(SubSeq(Components(p), 1, Len(Components(p)) - 1))

\* fs.existsSync(p)
existsSync(f, p) == p \in f.dirs \/ p \in DOMAIN f.files

\* fs.mkdirSync(p, { recursive: true }): creates p and its missing
\* ancestors; fails when a file is in the way.
mkdirSync(f, p) ==
    IF \E a \in AncestorsOrSelf(p) : a \in DOMAIN f.files
    THEN [ok |-> FALSE, fs |-> f]
    ELSE [ok |-> TRUE, fs |-> [f EXCEPT !.dirs = @ \cup AncestorsOrSelf(p)]]

\* A write that fails when the file is there already (flag 'wx').
writeFileSync_Exclusive(f, p, content) ==
    IF dirname(p) \notin f.dirs \/ p \in f.dirs \/ p \in DOMAIN f.files
    THEN [ok |-> FALSE, fs |-> f]
    ELSE [ok |-> TRUE,
          fs |-> [f EXCEPT !.files = [q \in (DOMAIN @) \cup {p} |->
                                          IF q = p THEN content ELSE @[q]]]]

\* fs.writeFileSync(p, content): creates or overwrites the file; fails when
\* its directory is missing or p is a directory.
writeFileSync(f, p, content) ==
    IF dirname(p) \notin f.dirs \/ p \in f.dirs
    THEN [ok |-> FALSE, fs |-> f]
    ELSE [ok |-> TRUE,
          fs |-> [f EXCEPT !.files = [q \in (DOMAIN @) \cup {p} |->
                                          IF q = p THEN content ELSE @[q]]]]

----------------------------------------------------------------------------
(* What a folderManager call throws, and the steps it goes through *)

NoExc == [class |-> "none", verror |-> NoVError, perror |-> NoError]
ValidationExc(e) == [class |-> "validation", verror |-> e, perror |-> NoError]
TraversalExc(e) == [class |-> "traversal", verror |-> NoVError, perror |-> e]
\* TypeError: template.forEach is not a function
TypeErrorExc == [class |-> "TypeError", verror |-> NoVError, perror |-> NoError]
\* `Invalid template filename: "${filename}" contains path traversal characters`
FilenameExc(filename) ==
    [class |-> "filename",
     verror |-> [name |-> "contains path traversal characters", type |-> "template filename",
                 text |-> filename, min |-> 0, max |-> 0],
     perror |-> NoError]
\* an error raised by the filesystem (EEXIST, ENOTDIR, ENOENT, EISDIR)
FsExc == [class |-> "fs", verror |-> NoVError, perror |-> NoError]

NoContent == Content("none", <<>>, <<>>)

\* One step of a call, in program order. A step whose path argument is
\* written safePath.toString() carries that SafePath in from.
StepNew(class) ==
    [c |-> class, p |-> <<>>, content |-> NoContent, then |-> <<>>, exc |-> NoExc,
     from |-> NoSafePath]
StepThrow(exc) ==
    [c |-> "throw", p |-> <<>>, content |-> NoContent, then |-> <<>>, exc |-> exc,
     from |-> NoSafePath]
StepMkdir(p) ==
    [c |-> "mkdirSync", p |-> p, content |-> NoContent, then |-> <<>>, exc |-> NoExc,
     from |-> NoSafePath]
StepWrite(p, content) ==
    [c |-> "writeFileSync", p |-> p, content |-> content, then |-> <<>>, exc |-> NoExc,
     from |-> NoSafePath]
\* if (!fs.existsSync(p)) { then }
StepIfMissing(p, then) ==
    [c |-> "existsSync", p |-> p, content |-> NoContent, then |-> then, exc |-> NoExc,
     from |-> NoSafePath]

\* The step, its path being the string value of safePath.
From(safePath, step) == [step EXCEPT !.from = safePath]

Call(c, p) == [call |-> c, path |-> p, from |-> NoSafePath]

\* Runs the steps in order on filesystem f until one throws; trace records
\* the constructor and filesystem calls made.
RECURSIVE Exec(_, _, _)
Exec(f, steps, trace) ==
    IF Len(steps) = 0 THEN [fs |-> f, exc |-> NoExc, trace |-> trace]
    ELSE LET st == Head(steps)
             rest == Tail(steps)
             called == Append(trace, [Call(st.c, st.p) EXCEPT !.from = st.from])
         IN CASE st.c = "throw" -> [fs |-> f, exc |-> st.exc, trace |-> trace]
              [] st.c = "existsSync" ->
                    Exec(f, (IF existsSync(f, st.p) THEN <<>> ELSE st.then) \o rest, called)
              [] st.c = "mkdirSync" ->
                    LET r == mkdirSync(f, st.p)
                    IN IF r.ok THEN Exec(r.fs, rest, called)
                       ELSE [fs |-> f, exc |-> FsExc, trace |-> called]
              [] st.c = "writeFileSync" ->
                    LET r == writeFileSync(f, st.p, st.content)
                    IN IF r.ok THEN Exec(r.fs, rest, called)
                       ELSE [fs |-> f, exc |-> FsExc, trace |-> called]
              [] OTHER -> Exec(f, rest, called)

----------------------------------------------------------------------------
(* folderManager (src/utils/folderManager.js) *)

STR_src == <<"s", "r", "c">>
STR_README_md == <<"R", "E", "A", "D", "M", "E", ".", "m", "d">>
STR_input == <<"i", "n", "p", "u", "t">>
STR_gitkeep == <<".", "g", "i", "t", "k", "e", "e", "p">>

\* getBasePath() of folderManager.js: path.join(process.cwd(), 'src')
FM_getBasePath(wd) == join(<<wd, STR_src>>)

\* An argument is a raw value, or an instance already built from raw.
RawArg(raw) == [isVO |-> FALSE, raw |-> raw]
InstanceArg(raw) == [isVO |-> TRUE, raw |-> raw]

\* `x instanceof X ? x : new X(x)`: the constructor runs for a raw argument.
ParseStep(arg, class) == IF arg.isVO THEN <<>> ELSE <<StepNew(class)>>

Plan(steps, ret) == [steps |-> steps, ret |-> ret]

\* if (!fs.existsSync(p)) fs.mkdirSync(p, { recursive: true })
EnsureDir(p) == StepIfMissing(p, <<StepMkdir(p)>>)

\* The same with p = safePath.toString()
EnsureDirOf(safePath) ==
    From(safePath, StepIfMissing(toString(safePath),
                                 <<From(safePath, StepMkdir(toString(safePath)))>>))

\* const f = folder.append(name).toString();
\* if (!fs.existsSync(f)) fs.writeFileSync(f, content)
EnsureFile(wd, folder, name, content) ==
    LET f == SafePathAppend(wd, folder, <<name>>)
    IN IF f.ok THEN From(f, StepIfMissing(toString(f),
                                          <<From(f, StepWrite(toString(f), content))>>))
       ELSE StepThrow(TraversalExc(f.error))

\* The year folder is made from the raw argument: no Year, no SafePath.
createYearFolder_RawJoin(wd, year) ==
    LET yearPath == join(<<FM_getBasePath(wd), String(year.raw)>>)
        readmePath == join(<<yearPath, STR_README_md>>)
    IN Plan(<<EnsureDir(yearPath),
              StepIfMissing(readmePath,
                  <<StepWrite(readmePath, Content("yearReadme", String(year.raw), <<>>))>>)>>,
            yearPath)

createYearFolder(wd, year) ==
    LET yearVO == YearNew(year.raw)
        parsed == ParseStep(year, "new Year")
    IN IF ~yearVO.ok THEN Plan(parsed \o <<StepThrow(ValidationExc(yearVO.error))>>, <<>>)
       ELSE
       LET yearPath == SafePathNew(wd, FM_getBasePath(wd), <<Year_toFolderName(yearVO)>>)
       IN IF ~yearPath.ok THEN Plan(parsed \o <<StepThrow(TraversalExc(yearPath.error))>>, <<>>)
          ELSE Plan(parsed \o
                    <<EnsureDirOf(yearPath),
                      EnsureFile(wd, yearPath, STR_README_md,
                                 Content("yearReadme", Year_toString(yearVO), <<>>))>>,
                    toString(yearPath))

\* The steps of createPuzzleFolder once both value objects exist.
PuzzleSteps(wd, yearVO, dayVO) ==
    LET puzzlePath == SafePathNew(wd, FM_getBasePath(wd),
                                  <<Year_toFolderName(yearVO), Day_toFolderName(dayVO)>>)
    IN IF ~puzzlePath.ok THEN Plan(<<StepThrow(TraversalExc(puzzlePath.error))>>, <<>>)
       ELSE
       LET inputPath == SafePathAppend(wd, puzzlePath, <<STR_input>>)
       IN Plan(<<EnsureDirOf(puzzlePath),
                 EnsureFile(wd, puzzlePath, STR_README_md,
                            Content("puzzleReadme", Year_toString(yearVO),
                                    String(Day_toNumber(dayVO)))),
                 IF inputPath.ok
                 THEN From(inputPath,
                          StepIfMissing(toString(inputPath),
                              <<From(inputPath, StepMkdir(toString(inputPath))),
                                StepWrite(join(<<toString(inputPath), STR_gitkeep>>),
                                          Content("empty", <<>>, <<>>))>>))
                 ELSE StepThrow(TraversalExc(inputPath.error))>>,
               toString(puzzlePath))

\* The year folder is made before the day argument is looked at.
createPuzzleFolder_LateDay(wd, year, day) ==
    LET yearVO == YearNew(year.raw)
        dayVO == DayNew(day.raw)
    IN IF ~yearVO.ok
       THEN Plan(ParseStep(year, "new Year") \o <<StepThrow(ValidationExc(yearVO.error))>>, <<>>)
       ELSE
       LET early == ParseStep(year, "new Year")
                      \o <<EnsureDir(join(<<FM_getBasePath(wd), Year_toFolderName(yearVO)>>))>>
                      \o ParseStep(day, "new Day")
       IN IF ~dayVO.ok THEN Plan(early \o <<StepThrow(ValidationExc(dayVO.error))>>, <<>>)
          ELSE Plan(early \o PuzzleSteps(wd, yearVO, dayVO).steps,
                    PuzzleSteps(wd, yearVO, dayVO).ret)

createPuzzleFolder(wd, year, day) ==
    LET yearVO == YearNew(year.raw)
        dayVO == DayNew(day.raw)
        parsedYear == ParseStep(year, "new Year")
        parsedBoth == parsedYear \o ParseStep(day, "new Day")
    IN IF ~yearVO.ok THEN Plan(parsedYear \o <<StepThrow(ValidationExc(yearVO.error))>>, <<>>)
       ELSE IF ~dayVO.ok THEN Plan(parsedBoth \o <<StepThrow(ValidationExc(dayVO.error))>>, <<>>)
       ELSE Plan(parsedBoth \o PuzzleSteps(wd, yearVO, dayVO).steps,
                 PuzzleSteps(wd, yearVO, dayVO).ret)

\* createLanguageTemplate(langPath, language)
createLanguageTemplate(wd, langPath, language) ==
    LET found == getLanguageTemplate(Language_toString(language))
        template == IF found.isNull THEN getGenericTemplate(Language_toString(language))
                    ELSE found
    IN IF ~template.isArray THEN <<StepThrow(TypeErrorExc)>>
       ELSE [i \in 1..Len(template.files) |->
                LET filename == template.files[i].filename
                    filePath == SafePathAppend(wd, langPath, <<filename>>)
                IN IF \/ includes(filename, <<".", ".">>)
                      \/ includes(filename, <<"/">>)
                      \/ includes(filename, <<"\\">>)
                   THEN StepThrow(FilenameExc(filename))
                   ELSE IF ~filePath.ok THEN StepThrow(TraversalExc(filePath.error))
                   ELSE From(filePath, StepWrite(toString(filePath), template.files[i].content))]

createLanguageFolder(wd, year, day, language) ==
    LET yearVO == YearNew(year.raw)
        dayVO == DayNew(day.raw)
        langVO == LanguageNew(language.raw)
        parsedYear == ParseStep(year, "new Year")
        parsedDay == parsedYear \o ParseStep(day, "new Day")
        parsedAll == parsedDay \o ParseStep(language, "new Language")
    IN IF ~yearVO.ok THEN Plan(parsedYear \o <<StepThrow(ValidationExc(yearVO.error))>>, <<>>)
       ELSE IF ~dayVO.ok THEN Plan(parsedDay \o <<StepThrow(ValidationExc(dayVO.error))>>, <<>>)
       ELSE IF ~langVO.ok THEN Plan(parsedAll \o <<StepThrow(ValidationExc(langVO.error))>>, <<>>)
       ELSE
       LET langPath == SafePathNew(wd, FM_getBasePath(wd),
                                   <<Year_toFolderName(yearVO), Day_toFolderName(dayVO),
                                     Language_toFolderName(langVO)>>)
       IN IF ~langPath.ok THEN Plan(parsedAll \o <<StepThrow(TraversalExc(langPath.error))>>, <<>>)
          ELSE Plan(parsedAll \o <<EnsureDirOf(langPath)>>
                      \o createLanguageTemplate(wd, langPath, langVO),
                    toString(langPath))

\* The day as text, not padded.
padDay_Unpadded(day) == String(day)

\* padDay(day), deprecated: String(day).padStart(2, '0')
padDay(day) == padStart2(String(day))

\* yearFolderExists(year): the path whose existence is returned
yearFolderExists(wd, year) ==
    LET yearVO == YearNew(year.raw)
        parsed == ParseStep(year, "new Year")
    IN IF ~yearVO.ok THEN Plan(parsed \o <<StepThrow(ValidationExc(yearVO.error))>>, <<>>)
       ELSE
       LET yearPath == SafePathNew(wd, FM_getBasePath(wd), <<Year_toFolderName(yearVO)>>)
       IN IF ~yearPath.ok THEN Plan(parsed \o <<StepThrow(TraversalExc(yearPath.error))>>, <<>>)
          ELSE Plan(parsed \o <<From(yearPath, StepIfMissing(toString(yearPath), <<>>))>>,
                    toString(yearPath))

\* puzzleFolderExists(year, day): the path whose existence is returned
puzzleFolderExists(wd, year, day) ==
    LET yearVO == YearNew(year.raw)
        dayVO == DayNew(day.raw)
        parsedYear == ParseStep(year, "new Year")
        parsedBoth == parsedYear \o ParseStep(day, "new Day")
    IN IF ~yearVO.ok THEN Plan(parsedYear \o <<StepThrow(ValidationExc(yearVO.error))>>, <<>>)
       ELSE IF ~dayVO.ok THEN Plan(parsedBoth \o <<StepThrow(ValidationExc(dayVO.error))>>, <<>>)
       ELSE
       LET puzzlePath == SafePathNew(wd, FM_getBasePath(wd),
                                     <<Year_toFolderName(yearVO), Day_toFolderName(dayVO)>>)
       IN IF ~puzzlePath.ok
          THEN Plan(parsedBoth \o <<StepThrow(TraversalExc(puzzlePath.error))>>, <<>>)
          ELSE Plan(parsedBoth \o <<From(puzzlePath, StepIfMissing(toString(puzzlePath), <<>>))>>,
                    toString(puzzlePath))

\* The boolean an exists call returns, as text; nothing when it threw.
Answer(plan, f) ==
    IF plan.ret = <<>> THEN <<>>
    ELSE IF existsSync(f, plan.ret) THEN Chars_true ELSE Chars_false

\* The record of one call: what it was given, what it did, what came of it.
Run(op, args, plan, f) ==
    LET r == Exec(f, plan.steps, <<>>)
    IN [op |-> op, args |-> args, ok |-> r.exc.class = "none",
        ret |-> IF r.exc.class = "none" THEN plan.ret ELSE <<>>,
        exc |-> r.exc, trace |-> r.trace, before |-> f, fs |-> r.fs]

\* No folderManager call has been made.
EmptyFs == [dirs |-> {}, files |-> <<>>]

NoCall == [op |-> "none", args |-> <<>>, ok |-> FALSE, ret |-> <<>>, exc |-> NoExc,
           trace |-> <<>>, before |-> EmptyFs, fs |-> EmptyFs]

FMIdle ==
    /\ fs = EmptyFs
    /\ fmLast = NoCall
    /\ nOps = 0
    /\ nFailed = 0

----------------------------------------------------------------------------
(* Inputs of the value-object constructors *)

RawChars == {"0", "1", "2", "5", "9", "/", "\\", ".", " ", "a", "-"}

\* Numbers around both ranges, whole and fractional (in tenths).
RawTenths ==
    {10 * k : k \in (-1..27) \cup (2013..2016) \cup (2098..2101)}
        \cup {5, 15, 245, 255, 20245, 20995}

RawValues ==
    {JsString(s) : s \in StringsUpTo(RawChars, MaxRawLen)}
        \cup {JsTenths(k) : k \in RawTenths}
        \cup {JsNaN, JsInfinity, JsNegInfinity, JsNull, JsUndefined, JsBool(TRUE), JsBool(FALSE)}

\* No operation has been made on an instance.
NoObjOp == [op |-> "none", n |-> 0]

VOIdle ==
    /\ voRaw = JsUndefined
    /\ vo = NoValueObject
    /\ voLast = NoObjOp

\* new Year(raw)
NewYear(raw) ==
    /\ vo.class = "none"
    /\ voRaw' = raw
    /\ vo' = YearNew(raw)
    /\ UNCHANGED <<cwd, sp, spSegs, spLast, nAppends, voLast, fs, fmLast, nOps, nFailed>>

\* new Day(raw)
NewDay(raw) ==
    /\ vo.class = "none"
    /\ voRaw' = raw
    /\ vo' = DayNew(raw)
    /\ UNCHANGED <<cwd, sp, spSegs, spLast, nAppends, voLast, fs, fmLast, nOps, nFailed>>

\* Characters of a raw language name: letters of both cases, a digit, the
\* four permitted signs, and '.', ' ', '/', '\' and '!' that are not permitted.
LangChars == {"C", "a", "1", "+", "#", "_", "-", ".", " ", "/", "\\", "!"}

\* n times the letter 'a'
Repeat_a(n) == [i \in 1..n |-> "a"]

\* Names around the length limit, bare and with a blank before or after.
LongNames ==
    UNION {{Repeat_a(n), <<" ">> \o Repeat_a(n), Repeat_a(n) \o <<" ">>,
            <<"C", "+", "+">> \o Repeat_a(n - 3)} :
           n \in (LANGUAGE_MAX_LENGTH - 1)..(LANGUAGE_MAX_LENGTH + 2)}

LangValues ==
    {JsString(s) : s \in StringsUpTo(LangChars, MaxLangLen) \cup LongNames}
        \cup {JsInt(0), JsInt(5), JsNaN, JsNull, JsUndefined, JsBool(TRUE), JsBool(FALSE)}

\* new Language(raw)
NewLanguage(raw) ==
    /\ vo.class = "none"
    /\ voRaw' = raw
    /\ vo' = LanguageNew(raw)
    /\ UNCHANGED <<cwd, sp, spSegs, spLast, nAppends, voLast, fs, fmLast, nOps, nFailed>>

\* The ranges and kinds the shared range validator is called with.
RangeArgs ==
    { [min |-> DAY_MIN, max |-> DAY_MAX, type |-> "day"],
      [min |-> YEAR_MIN, max |-> YEAR_MAX, type |-> "year"] }

\* validateNumberInRange(raw, min, max, type) of validators.js
ValidateNumber(raw, range) ==
    /\ vo.class = "none"
    /\ voRaw' = raw
    /\ vo' = [class |-> "validateNumberInRange",
              out |-> validateNumberInRange(raw, range.min, range.max, range.type),
              min |-> range.min, max |-> range.max, type |-> range.type]
    /\ UNCHANGED <<cwd, sp, spSegs, spLast, nAppends, voLast, fs, fmLast, nOps, nFailed>>

\* padDay(raw) for a raw value Day accepts, next to the Day made of it
PadDay(raw) ==
    /\ vo.class = "none"
    /\ voRaw' = raw
    /\ vo' = [class |-> "padDay", out |-> padDay(raw), day |-> DayNew(raw)]
    /\ UNCHANGED <<cwd, sp, spSegs, spLast, nAppends, voLast, fs, fmLast, nOps, nFailed>>

----------------------------------------------------------------------------
(* Inputs of the SafePath operations *)

\* Segments: every string of at most two characters over '/', '.' and 'a',
\* among them '', '.', '..', 'aa', and the absolute '/' and '/a'.
SegStrings ==
    { <<>>, <<"/">>, <<".">>, <<"a">>,
      <<"/", "/">>, <<"/", ".">>, <<"/", "a">>, <<".", "/">>,
      <<".", ".">>, <<".", "a">>, <<"a", "/">>, <<"a", ".">>,
      <<"a", "a">> }

\* Base directories: the root, absolute paths, and paths relative to cwd.
BasePaths == { <<SEP>>, <<SEP, "a">>, <<SEP, "a", SEP, "a">>, <<"a">> }

Cwds == { <<SEP>>, <<SEP, "a">> }

NoOp == [op |-> "none", base |-> <<>>, segs |-> <<>>, out |-> NoSafePath]

PathIdle ==
    /\ sp = NoSafePath
    /\ spSegs = <<>>
    /\ spLast = NoOp
    /\ nAppends = 0

PathInit ==
    /\ cwd \in Cwds
    /\ PathIdle
    /\ VOIdle
    /\ FMIdle

\* new SafePath(base, ...segs)
Construct(base, segs) ==
    /\ spLast.op = "none"
    /\ spLast' = [op |-> "new", base |-> base, segs |-> segs,
                  out |-> SafePathNew(cwd, base, segs)]
    /\ sp' = spLast'.out
    /\ spSegs' = segs
    /\ UNCHANGED <<cwd, nAppends, voRaw, vo, voLast, fs, fmLast, nOps, nFailed>>

\* sp.append(...segs) on the instance the last operation returned: the new
\* instance replaces it; when append throws, the receiver stays as it is
\* and the behaviour ends with the exception.
AppendSegs(segs) ==
    /\ sp.ok
    /\ spLast.out.ok
    /\ nAppends < MaxAppends
    /\ spLast' = [op |-> "append", base |-> spLast.base, segs |-> spSegs \o segs,
                  out |-> SafePathAppend(cwd, sp, segs)]
    /\ sp' = IF spLast'.out.ok THEN spLast'.out ELSE sp
    /\ spSegs' = IF spLast'.out.ok THEN spSegs \o segs ELSE spSegs
    /\ nAppends' = nAppends + 1
    /\ UNCHANGED <<cwd, voRaw, vo, voLast, fs, fmLast, nOps, nFailed>>

PathNext ==
    \/ /\ spLast.op = "none"
       /\ \E base \in BasePaths, segs \in ListsUpTo(SegStrings, MaxSegs) : Construct(base, segs)
    \/ /\ sp.ok /\ spLast.out.ok /\ nAppends < MaxAppends
       /\ \E segs \in ListsUpTo(SegStrings, MaxSegs - Len(spSegs)) : AppendSegs(segs)

SpecPath == PathInit /\ [][PathNext]_vars

\* new SafePath(base, ...segs), kept next to the other constructors' outcomes
ConstructPath(base, segs) ==
    /\ vo.class = "none"
    /\ voRaw' = [t |-> "segments", s |-> base, segs |-> segs]
    /\ vo' = [class |-> "SafePath", out |-> SafePathNew(cwd, base, segs)]
    /\ UNCHANGED <<cwd, sp, spSegs, spLast, nAppends, voLast, fs, fmLast, nOps, nFailed>>

----------------------------------------------------------------------------
(* The value-object constructors applied to one raw value *)

VOInit ==
    /\ cwd = <<SEP>>
    /\ PathIdle
    /\ VOIdle
    /\ FMIdle

VONext ==
    \/ /\ vo.class = "none"
       /\ \E raw \in RawValues : NewYear(raw)
    \/ /\ vo.class = "none"
       /\ \E raw \in RawValues : NewDay(raw)
    \/ /\ vo.class = "none"
       /\ \E raw \in LangValues : NewLanguage(raw)
    \/ /\ vo.class = "none"
       /\ \E raw \in RawValues, range \in RangeArgs : ValidateNumber(raw, range)
    \/ /\ vo.class = "none"
       /\ \E base \in BasePaths, segs \in ListsUpTo(SegStrings, MaxSegs) :
             ConstructPath(base, segs)
    \/ /\ vo.class = "none"
       /\ \E raw \in {r \in RawValues : DayNew(r).ok} : PadDay(raw)

SpecVO == VOInit /\ [][VONext]_vars

----------------------------------------------------------------------------
(* Operations on a constructed instance: accessors, equals, append, and the
   attempts of a caller to change it *)

MaxObjOps == 2        \* operations made on one instance

\* An instance exists: the constructor returned.
ObjAlive ==
    CASE vo.class \in {"Year", "Day", "Language"} -> vo.ok
      [] vo.class = "SafePath" -> vo.out.ok
      [] OTHER -> FALSE

\* What the three accessors of instance v return.
Accessors(v) ==
    CASE v.class = "Year" -> <<Year_toNumber(v), Year_toString(v), Year_toFolderName(v)>>
      [] v.class = "Day" -> <<Day_toNumber(v), Day_toPaddedString(v), Day_toFolderName(v)>>
      [] v.class = "Language" ->
            <<Language_toString(v), Language_toNormalized(v), Language_toFolderName(v)>>
      [] v.class = "SafePath" -> <<toString(v.out), getValue(v.out), getBasePath(v.out)>>

\* other instanceof X
InstanceOf(other, class) ==
    /\ other.class = class
    /\ IF class = "SafePath" THEN other.out.ok ELSE other.ok

\* a.equals(other) of each class
Year_equals(a, other) == InstanceOf(other, "Year") /\ a.value = other.value
Day_equals(a, other) == InstanceOf(other, "Day") /\ a.value = other.value
Language_equals(a, other) ==
    InstanceOf(other, "Language") /\ a.normalizedValue = other.normalizedValue
SafePath_equals(a, other) ==
    InstanceOf(other, "SafePath") /\ a.out.resolvedPath = other.out.resolvedPath

Equals(a, other) ==
    CASE a.class = "Year" -> Year_equals(a, other)
      [] a.class = "Day" -> Day_equals(a, other)
      [] a.class = "Language" -> Language_equals(a, other)
      [] a.class = "SafePath" -> SafePath_equals(a, other)

\* A value that is no instance of the four classes.
Foreign(kind) == [class |-> kind, ok |-> FALSE]

\* One of the accessors is called.
CallAccessor(i) ==
    /\ ObjAlive
    /\ voLast.n < MaxObjOps
    /\ voLast' = [op |-> "accessor", n |-> voLast.n + 1, which |-> i,
                  result |-> Accessors(vo)[i]]
    /\ UNCHANGED <<cwd, sp, spSegs, spLast, nAppends, voRaw, vo, fs, fmLast, nOps, nFailed>>

\* vo.equals(other) and other.equals(vo), other built from otherRaw or foreign.
CallEquals(otherRaw, other) ==
    /\ ObjAlive
    /\ voLast.n < MaxObjOps
    /\ voLast' = [op |-> "equals", n |-> voLast.n + 1, otherRaw |-> otherRaw, other |-> other,
                  result |-> Equals(vo, other),
                  reverse |-> IF other.class \in {"Year", "Day", "Language", "SafePath"}
                              THEN Equals(other, vo) ELSE FALSE]
    /\ UNCHANGED <<cwd, sp, spSegs, spLast, nAppends, voRaw, vo, fs, fmLast, nOps, nFailed>>

\* vo.x = ..., vo.toString = ..., delete vo.x: the instance is frozen and
\* its fields are private, so the statement is ignored or throws a TypeError.
TryMutate(kind) ==
    /\ ObjAlive
    /\ voLast.n < MaxObjOps
    /\ voLast' = [op |-> kind, n |-> voLast.n + 1]
    /\ UNCHANGED <<cwd, sp, spSegs, spLast, nAppends, voRaw, vo, fs, fmLast, nOps, nFailed>>

\* vo.append(...segs): a new instance is returned, or the error thrown.
AppendPath(segs) ==
    /\ ObjAlive
    /\ vo.class = "SafePath"
    /\ voLast.n < MaxObjOps
    /\ voLast' = [op |-> "append", n |-> voLast.n + 1, segs |-> segs,
                  result |-> SafePathAppend(cwd, vo.out, segs)]
    /\ UNCHANGED <<cwd, sp, spSegs, spLast, nAppends, voRaw, vo, fs, fmLast, nOps, nFailed>>

\* The caller assigns k to the element of the array it gave the
\* constructor (the array toNumber() returns when the instance kept it):
\* Day keeps a value that is not a string as it is given, Year keeps the
\* number it converted it to.
WriteElement(k) ==
    /\ ObjAlive
    /\ voRaw.t = "array"
    /\ voLast.n < MaxObjOps
    /\ voRaw' = JsArray(voRaw.s[1], k)
    /\ vo' = IF vo.class = "Day" /\ vo.value.t = "array"
             THEN [vo EXCEPT !.value = voRaw'] ELSE vo
    /\ voLast' = [op |-> "writeElement", n |-> voLast.n + 1]
    /\ UNCHANGED <<cwd, sp, spSegs, spLast, nAppends, fs, fmLast, nOps, nFailed>>

\* The same assignment with a string of path characters for the element.
WriteString(chars) ==
    /\ ObjAlive
    /\ voRaw.t = "array"
    /\ voLast.n < MaxObjOps
    /\ voRaw' = JsArrayOfString(voRaw.s[1], chars)
    /\ vo' = IF vo.class = "Day" /\ vo.value.t = "array"
             THEN [vo EXCEPT !.value = voRaw'] ELSE vo
    /\ voLast' = [op |-> "writeString", n |-> voLast.n + 1]
    /\ UNCHANGED <<cwd, sp, spSegs, spLast, nAppends, fs, fmLast, nOps, nFailed>>

WrittenStrings == { <<".", ".", "/", ".", ".">>, <<".", ".", "/", ".", ".", "/", ".", ".", "/", ".", ".">> }

\* Raw values of the instances operated on, and of the instances compared with.
ObjYearRaws ==
    { JsString(<<"2", "0", "2", "4">>), JsInt(2024), JsString(<<" ", "2", "0", "2", "4">>),
      JsString(<<"2", "0", "2", "5">>), JsArray("x", 2024), JsString(<<"2", "4">>) }

ObjDayRaws ==
    { JsString(<<"5">>), JsInt(5), JsString(<<"0", "5">>), JsString(<<"1", "5">>), JsInt(15),
      JsTenths(15), JsBool(TRUE), JsArray("x", 5), JsArray("y", 5), JsInt(26) }

ObjLanguageRaws ==
    { JsString(<<"P", "y", "t", "h", "o", "n">>), JsString(<<"p", "y", "t", "h", "o", "n">>),
      JsString(<<" ", "G", "o">>), JsString(<<"g", "o">>), JsString(<<"C", "+", "+">>),
      JsString(<<"-", "x">>) }

ObjSegs == { <<>>, <<<<"a">>>>, <<DOTDOT>>, <<<<"a">>, DOTDOT>>, <<<<"a", "a">>>> }

\* Raw value r as it is now: the array the caller also gave to vo has the
\* element the caller last assigned.
SameObject(r) == IF r.t = "array" /\ voRaw.t = "array" /\ r.s[1] = voRaw.s[1] THEN voRaw ELSE r

\* The instances vo can be compared with: one of each raw value of its own
\* class, instances of the other classes, and values that are no instance.
Others ==
    CASE vo.class = "Year" ->
            {[raw |-> SameObject(r), v |-> YearNew(SameObject(r))] : r \in ObjYearRaws}
      [] vo.class = "Day" ->
            {[raw |-> SameObject(r), v |-> DayNew(SameObject(r))] : r \in ObjDayRaws}
      [] vo.class = "Language" -> {[raw |-> r, v |-> LanguageNew(r)] : r \in ObjLanguageRaws}
      [] vo.class = "SafePath" ->
            {[raw |-> [t |-> "segments", s |-> b, segs |-> g],
              v |-> [class |-> "SafePath", out |-> SafePathNew(cwd, b, g)]] :
                b \in BasePaths, g \in ObjSegs}
      [] OTHER -> {}

Strangers ==
    { [raw |-> JsInt(2024), v |-> YearNew(JsInt(2024))],
      [raw |-> JsInt(5), v |-> DayNew(JsInt(5))],
      [raw |-> JsString(<<"g", "o">>), v |-> LanguageNew(JsString(<<"g", "o">>))],
      [raw |-> JsNull, v |-> Foreign("null")],
      [raw |-> JsString(<<"2", "0", "2", "4">>), v |-> Foreign("string")],
      [raw |-> JsInt(5), v |-> Foreign("number")] }

ObjInit ==
    /\ cwd = <<SEP, "a">>
    /\ PathIdle
    /\ VOIdle
    /\ FMIdle

ObjNext ==
    \/ /\ vo.class = "none"
       /\ \E raw \in ObjYearRaws : NewYear(raw)
    \/ /\ vo.class = "none"
       /\ \E raw \in ObjDayRaws : NewDay(raw)
    \/ /\ vo.class = "none"
       /\ \E raw \in ObjLanguageRaws : NewLanguage(raw)
    \/ /\ vo.class = "none"
       /\ \E base \in BasePaths, segs \in ObjSegs : ConstructPath(base, segs)
    \/ /\ ObjAlive /\ voLast.n < MaxObjOps
       /\ \E i \in 1..3 : CallAccessor(i)
    \/ /\ ObjAlive /\ voLast.n < MaxObjOps
       /\ \E o \in Others \cup Strangers : CallEquals(o.raw, o.v)
    \/ /\ ObjAlive /\ voLast.n < MaxObjOps
       /\ \E kind \in {"assign", "add", "delete"} : TryMutate(kind)
    \/ /\ ObjAlive /\ voLast.n < MaxObjOps /\ vo.class = "SafePath"
       /\ \E segs \in ObjSegs : AppendPath(segs)
    \/ /\ ObjAlive /\ voLast.n < MaxObjOps /\ voRaw.t = "array"
       /\ \E k \in {5, 7} : WriteElement(k)
    \/ /\ ObjAlive /\ voLast.n < MaxObjOps /\ voRaw.t = "array"
       /\ \E chars \in WrittenStrings : WriteString(chars)

SpecObj == ObjInit /\ [][ObjNext]_vars

----------------------------------------------------------------------------
(* Inputs of the folderManager calls *)

WorkDir == <<SEP, "w">>

YearArgs ==
    { RawArg(JsString(<<"2", "0", "2", "4">>)),
      InstanceArg(JsInt(2024)),
      RawArg(JsString(<<".", ".", "/", ".", ".">>)),
      RawArg(JsString(<<"2", "0", "2", "4", "/", ".", ".">>)) }

DayArgs ==
    { RawArg(JsString(<<"1">>)),
      RawArg(JsString(<<".", ".", "/", "1", "5">>)),
      RawArg(JsString(<<"1", "/", ".", ".">>)),
      RawArg(JsTenths(15)) }

LanguageArgs ==
    { RawArg(JsString(<<"P", "y", "t", "h", "o", "n">>)),
      RawArg(JsString(<<"Z", "i", "g">>)),
      RawArg(JsString(<<".", ".", "/", "x">>)),
      RawArg(JsString(STR_constructor)) }

\* The working directory exists; src/ below it may or may not.
FMInit ==
    /\ cwd = WorkDir
    /\ PathIdle
    /\ VOIdle
    /\ \E srcExists \in BOOLEAN :
          fs = [dirs |-> AncestorsOrSelf(IF srcExists THEN FM_getBasePath(WorkDir) ELSE WorkDir),
                files |-> <<>>]
    /\ fmLast = NoCall
    /\ nOps = 0
    /\ nFailed = 0

CreateYearFolder(year) ==
    /\ nOps < MaxOps
    /\ fmLast' = Run("createYearFolder", <<year>>, createYearFolder(cwd, year), fs)
    /\ fs' = fmLast'.fs
    /\ nOps' = nOps + 1
    /\ nFailed' = IF fmLast'.ok THEN nFailed ELSE nFailed + 1
    /\ UNCHANGED <<cwd, sp, spSegs, spLast, nAppends, voRaw, vo, voLast>>

CreatePuzzleFolder(year, day) ==
    /\ nOps < MaxOps
    /\ fmLast' = Run("createPuzzleFolder", <<year, day>>, createPuzzleFolder(cwd, year, day), fs)
    /\ fs' = fmLast'.fs
    /\ nOps' = nOps + 1
    /\ nFailed' = IF fmLast'.ok THEN nFailed ELSE nFailed + 1
    /\ UNCHANGED <<cwd, sp, spSegs, spLast, nAppends, voRaw, vo, voLast>>

CreateLanguageFolder(year, day, language) ==
    /\ nOps < MaxOps
    /\ fmLast' = Run("createLanguageFolder", <<year, day, language>>,
                     createLanguageFolder(cwd, year, day, language), fs)
    /\ fs' = fmLast'.fs
    /\ nOps' = nOps + 1
    /\ nFailed' = IF fmLast'.ok THEN nFailed ELSE nFailed + 1
    /\ UNCHANGED <<cwd, sp, spSegs, spLast, nAppends, voRaw, vo, voLast>>

FMNext ==
    \/ /\ nOps < MaxOps
       /\ \E year \in YearArgs : CreateYearFolder(year)
    \/ /\ nOps < MaxOps
       /\ \E year \in YearArgs, day \in DayArgs : CreatePuzzleFolder(year, day)
    \/ /\ nOps < MaxOps
       /\ \E year \in YearArgs, day \in DayArgs, language \in LanguageArgs :
             CreateLanguageFolder(year, day, language)

Spec == FMInit /\ [][FMNext]_vars

----------------------------------------------------------------------------
(* The folder tree built by calls with arguments the value objects accept *)

TreeYears ==
    { RawArg(JsString(<<"2", "0", "2", "4">>)), RawArg(JsInt(2025)) }

TreeDays ==
    { RawArg(JsString(<<"1">>)), RawArg(JsString(<<"5">>)), RawArg(JsInt(15)) }

\* A language with templates, one without, one named like the input
\* folder of a puzzle, and one named like an inherited property.
TreeLanguages ==
    { RawArg(JsString(<<"P", "y", "t", "h", "o", "n">>)),
      RawArg(JsString(<<"Z", "i", "g">>)),
      RawArg(JsString(<<"z", "i", "g">>)),
      RawArg(JsString(<<"I", "n", "p", "u", "t">>)),
      RawArg(JsString(STR_constructor)) }

YearFolderExists(year) ==
    /\ nOps < MaxOps
    /\ fmLast' = [Run("yearFolderExists", <<year>>, yearFolderExists(cwd, year), fs)
                     EXCEPT !.ret = Answer(yearFolderExists(cwd, year), fs)]
    /\ nOps' = nOps + 1
    /\ nFailed' = IF fmLast'.ok THEN nFailed ELSE nFailed + 1
    /\ UNCHANGED <<cwd, sp, spSegs, spLast, nAppends, voRaw, vo, voLast, fs>>

PuzzleFolderExists(year, day) ==
    /\ nOps < MaxOps
    /\ fmLast' = [Run("puzzleFolderExists", <<year, day>>,
                      puzzleFolderExists(cwd, year, day), fs)
                     EXCEPT !.ret = Answer(puzzleFolderExists(cwd, year, day), fs)]
    /\ nOps' = nOps + 1
    /\ nFailed' = IF fmLast'.ok THEN nFailed ELSE nFailed + 1
    /\ UNCHANGED <<cwd, sp, spSegs, spLast, nAppends, voRaw, vo, voLast, fs>>

TreeNext ==
    \/ /\ nOps < MaxOps
       /\ \E year \in TreeYears : CreateYearFolder(year)
    \/ /\ nOps < MaxOps
       /\ \E year \in TreeYears, day \in TreeDays : CreatePuzzleFolder(year, day)
    \/ /\ nOps < MaxOps
       /\ \E year \in TreeYears, day \in TreeDays, language \in TreeLanguages :
             CreateLanguageFolder(year, day, language)
    \/ /\ nOps < MaxOps
       /\ \E year \in TreeYears : YearFolderExists(year)
    \/ /\ nOps < MaxOps
       /\ \E year \in TreeYears, day \in TreeDays : PuzzleFolderExists(year, day)

SpecTree == FMInit /\ [][TreeNext]_vars

----------------------------------------------------------------------------
(* Two create calls made by two processes on the same tree, their
   filesystem calls interleaved *)

\* One step of a call on filesystem f: what is left of the call, the
\* filesystem after the step, and the exception if the step threw.
ExecStep(f, steps) ==
    LET st == Head(steps)
        rest == Tail(steps)
    IN CASE st.c = "throw" -> [fs |-> f, steps |-> <<>>, exc |-> st.exc]
         [] st.c = "existsSync" ->
               [fs |-> f, steps |-> (IF existsSync(f, st.p) THEN <<>> ELSE st.then) \o rest,
                exc |-> NoExc]
         [] st.c = "mkdirSync" ->
               LET r == mkdirSync(f, st.p)
               IN IF r.ok THEN [fs |-> r.fs, steps |-> rest, exc |-> NoExc]
                  ELSE [fs |-> f, steps |-> <<>>, exc |-> FsExc]
         [] st.c = "writeFileSync" ->
               LET r == writeFileSync(f, st.p, st.content)
               IN IF r.ok THEN [fs |-> r.fs, steps |-> rest, exc |-> NoExc]
                  ELSE [fs |-> f, steps |-> <<>>, exc |-> FsExc]
         [] OTHER -> [fs |-> f, steps |-> rest, exc |-> NoExc]

RaceYear == RawArg(JsString(<<"2", "0", "2", "4">>))
RaceDay == RawArg(JsString(<<"1">>))

\* The calls a process makes: each create operation, with arguments the
\* value objects accept.
RaceCalls ==
    { [op |-> "createYearFolder", args |-> <<RaceYear>>],
      [op |-> "createPuzzleFolder", args |-> <<RaceYear, RaceDay>>],
      [op |-> "createPuzzleFolder", args |-> <<RaceYear, RawArg(JsInt(15))>>] }
    \cup { [op |-> "createLanguageFolder", args |-> <<RaceYear, RaceDay, l>>] :
              l \in TreeLanguages }

PlanOf(wd, call) ==
    CASE call.op = "createYearFolder" -> createYearFolder(wd, call.args[1])
      [] call.op = "createPuzzleFolder" -> createPuzzleFolder(wd, call.args[1], call.args[2])
      [] call.op = "createLanguageFolder" ->
            createLanguageFolder(wd, call.args[1], call.args[2], call.args[3])

\* Two processes are started, each to make one call.
StartRace(a, b) ==
    /\ fmLast.op = "none"
    /\ fmLast' = [op |-> "race", calls |-> <<a, b>>,
                  steps |-> <<PlanOf(cwd, a).steps, PlanOf(cwd, b).steps>>,
                  exc |-> <<NoExc, NoExc>>, before |-> fs]
    /\ UNCHANGED <<cwd, sp, spSegs, spLast, nAppends, voRaw, vo, voLast, fs, nOps, nFailed>>

\* Process i makes its next step.
StepOf(i) ==
    /\ fmLast.op = "race"
    /\ Len(fmLast.steps[i]) > 0
    /\ fmLast' = [fmLast EXCEPT !.steps[i] = ExecStep(fs, fmLast.steps[i]).steps,
                                !.exc[i] = ExecStep(fs, fmLast.steps[i]).exc]
    /\ fs' = ExecStep(fs, fmLast.steps[i]).fs
    /\ UNCHANGED <<cwd, sp, spSegs, spLast, nAppends, voRaw, vo, voLast, nOps, nFailed>>

RaceNext ==
    \/ /\ fmLast.op = "none"
       /\ \E a \in RaceCalls, b \in RaceCalls : StartRace(a, b)
    \/ /\ fmLast.op = "race"
       /\ \E i \in {1, 2} : StepOf(i)

SpecRace == FMInit /\ [][RaceNext]_vars

----------------------------------------------------------------------------
(* The command line (src/cli/setup.js) *)

MaxArgs == 4          \* main reads args[0] to args[3]

STR_year == <<"y", "e", "a", "r">>
STR_puzzle == <<"p", "u", "z", "z", "l", "e">>
STR_language == <<"l", "a", "n", "g", "u", "a", "g", "e">>

\* args[i - 1]: the i-th word after the script name, undefined when absent.
Arg(args, i) == IF i <= Len(args) THEN JsString(args[i]) ELSE JsUndefined

\* !x for a word of the command line: it is absent or it is empty.
Falsy(v) == v.t = "undefined" \/ (v.t = "string" /\ Len(v.s) = 0)

\* One line written to the console.
Line(stream, kind, text) == [stream |-> stream, kind |-> kind, text |-> text]
Usage == Line("log", "usage", <<>>)

\* process.exit(1) after the lines given, nothing else having been done
ExitOne(f, lines) ==
    [exit |-> 1, out |-> lines, fs |-> f, trace |-> <<>>, exc |-> NoExc]

\* The folder operation has run: its path is printed and main returns, or
\* its exception leaves main uncaught and ends the process with status 1.
Finish(r, kind) ==
    IF r.ok
    THEN [exit |-> 0, out |-> <<Line("log", kind, r.ret)>>, fs |-> r.fs,
          trace |-> Append(r.trace, Call("console.log", r.ret)), exc |-> NoExc]
    ELSE [exit |-> 1, out |-> <<Line("error", "uncaught", <<>>)>>, fs |-> r.fs,
          trace |-> r.trace, exc |-> r.exc]

\* main with the unknown command reported but the process not ended.
main_NoExit(wd, args, f) ==
    LET command == Arg(args, 1)
    IN IF Falsy(command) THEN ExitOne(f, <<Usage>>)
       ELSE IF command.s = STR_year
       THEN IF Falsy(Arg(args, 2))
            THEN ExitOne(f, <<Line("error", "Year is required", <<>>), Usage>>)
            ELSE Finish(Run("createYearFolder", <<RawArg(Arg(args, 2))>>,
                            createYearFolder(wd, RawArg(Arg(args, 2))), f),
                        "Created year folder")
       ELSE IF command.s = STR_puzzle
       THEN IF Falsy(Arg(args, 2)) \/ Falsy(Arg(args, 3))
            THEN ExitOne(f, <<Line("error", "Year and day are required", <<>>), Usage>>)
            ELSE Finish(Run("createPuzzleFolder", <<RawArg(Arg(args, 2)), RawArg(Arg(args, 3))>>,
                            createPuzzleFolder(wd, RawArg(Arg(args, 2)), RawArg(Arg(args, 3))),
                            f),
                        "Created puzzle folder")
       ELSE IF command.s = STR_language
       THEN IF Falsy(Arg(args, 2)) \/ Falsy(Arg(args, 3)) \/ Falsy(Arg(args, 4))
            THEN ExitOne(f, <<Line("error", "Year, day, and language are required", <<>>),
                              Usage>>)
            ELSE Finish(Run("createLanguageFolder",
                            <<RawArg(Arg(args, 2)), RawArg(Arg(args, 3)), RawArg(Arg(args, 4))>>,
                            createLanguageFolder(wd, RawArg(Arg(args, 2)), RawArg(Arg(args, 3)),
                                                 RawArg(Arg(args, 4))), f),
                        "Created solution folder")
       ELSE [exit |-> 0, out |-> <<Line("error", "Unknown command", command.s), Usage>>,
             fs |-> f, trace |-> <<>>, exc |-> NoExc]

\* main(), run once by the process with args = process.argv.slice(2)
main(wd, args, f) ==
    LET command == Arg(args, 1)
    IN IF Falsy(command) THEN ExitOne(f, <<Usage>>)
       ELSE IF command.s = STR_year
       THEN IF Falsy(Arg(args, 2))
            THEN ExitOne(f, <<Line("error", "Year is required", <<>>), Usage>>)
            ELSE Finish(Run("createYearFolder", <<RawArg(Arg(args, 2))>>,
                            createYearFolder(wd, RawArg(Arg(args, 2))), f),
                        "Created year folder")
       ELSE IF command.s = STR_puzzle
       THEN IF Falsy(Arg(args, 2)) \/ Falsy(Arg(args, 3))
            THEN ExitOne(f, <<Line("error", "Year and day are required", <<>>), Usage>>)
            ELSE Finish(Run("createPuzzleFolder", <<RawArg(Arg(args, 2)), RawArg(Arg(args, 3))>>,
                            createPuzzleFolder(wd, RawArg(Arg(args, 2)), RawArg(Arg(args, 3))),
                            f),
                        "Created puzzle folder")
       ELSE IF command.s = STR_language
       THEN IF Falsy(Arg(args, 2)) \/ Falsy(Arg(args, 3)) \/ Falsy(Arg(args, 4))
            THEN ExitOne(f, <<Line("error", "Year, day, and language are required", <<>>),
                              Usage>>)
            ELSE Finish(Run("createLanguageFolder",
                            <<RawArg(Arg(args, 2)), RawArg(Arg(args, 3)), RawArg(Arg(args, 4))>>,
                            createLanguageFolder(wd, RawArg(Arg(args, 2)), RawArg(Arg(args, 3)),
                                                 RawArg(Arg(args, 4))), f),
                        "Created solution folder")
       ELSE ExitOne(f, <<Line("error", "Unknown command", command.s), Usage>>)

\* Words of a command line: the three commands, an unknown one, the empty
\* word, and year, day and language words that pass or fail validation.
CliWords ==
    { STR_year, STR_puzzle, STR_language, <<"r", "m">>, <<>>,
      <<"2", "0", "2", "4">>, <<".", ".", "/", ".", ".">>,
      <<"1">>, <<"0">>, <<"G", "o">>, <<".", ".", "/", "x">> }

\* node setup.js ...args
Main(args) ==
    /\ nOps = 0
    /\ fmLast' = [op |-> "main", args |-> args, before |-> fs, run |-> main(cwd, args, fs)]
    /\ fs' = fmLast'.run.fs
    /\ nOps' = 1
    /\ nFailed' = IF fmLast'.run.exit = 0 THEN 0 ELSE 1
    /\ UNCHANGED <<cwd, sp, spSegs, spLast, nAppends, voRaw, vo, voLast>>

CliNext ==
    /\ nOps = 0
    /\ \E args \in ListsUpTo(CliWords, MaxArgs) : Main(args)

SpecCli == FMInit /\ [][CliNext]_vars

----------------------------------------------------------------------------
(* Day 1, Historian Hysteria (src/2024/day01/typescript/solution.ts) *)

\* s.split('\n')
RECURSIVE SplitLines(_, _, _, _)
SplitLines(s, i, cur, acc) ==
    IF i > Len(s) THEN Append(acc, cur)
    ELSE IF s[i] = "\n" THEN SplitLines(s, i + 1, <<>>, Append(acc, cur))
    ELSE SplitLines(s, i + 1, Append(cur, s[i]), acc)

\* s.split(/\s+/): a run of whitespace separates two parts.
RECURSIVE SplitSpace(_, _, _, _)
SplitSpace(s, i, cur, acc) ==
    IF i > Len(s) THEN Append(acc, cur)
    ELSE IF s[i] \in WhiteSpace
         THEN SplitSpace(s, SkipSpace(s, i), <<>>, Append(acc, cur))
    ELSE SplitSpace(s, i + 1, Append(cur, s[i]), acc)

\* The two lists after the parsing loop: a line of fewer than two parts
\* adds nothing.
RECURSIVE ParseLines(_, _, _)
ParseLines(lines, left, right) ==
    IF Len(lines) = 0 THEN <<left, right>>
    ELSE LET parts == SplitSpace(trim(Head(lines)), 1, <<>>, <<>>)
         IN IF Len(parts) >= 2
            THEN ParseLines(Tail(lines), Append(left, parseInt(parts[1])),
                            Append(right, parseInt(parts[2])))
            ELSE ParseLines(Tail(lines), left, right)

\* The list with x put before the first element greater than it.
RECURSIVE InsertSorted(_, _)
InsertSorted(xs, x) ==
    IF Len(xs) = 0 THEN <<x>>
    ELSE IF x < Head(xs) THEN <<x>> \o xs
    ELSE <<Head(xs)>> \o InsertSorted(Tail(xs), x)

\* The list left as it is.
SortAscending_Unsorted(xs) == xs

\* list.sort((a, b) => a - b) on a list of integers
RECURSIVE SortAscending(_)
SortAscending(xs) ==
    IF Len(xs) = 0 THEN <<>>
    ELSE InsertSorted(SortAscending(SubSeq(xs, 1, Len(xs) - 1)), xs[Len(xs)])

Abs(k) == IF k < 0 THEN 0 - k ELSE k

\* The loop that adds Math.abs(leftList[i] - rightList[i])
RECURSIVE TotalDistance(_, _, _)
TotalDistance(left, right, i) ==
    IF i > Len(left) THEN 0
    ELSE Abs(left[i] - right[i]) + TotalDistance(left, right, i + 1)

\* solve(input). A part that holds no integer is parsed to NaN, and then
\* the sum is NaN whatever order the sort gave the lists.
solve(input) ==
    LET lists == ParseLines(SplitLines(trim(input), 1, <<>>, <<>>), <<>>, <<>>)
        whole(list) == [i \in 1..Len(list) |-> list[i].n \div 10]
    IN IF \E i \in 1..Len(lists[1]) : lists[1][i].t = "NaN" \/ lists[2][i].t = "NaN"
       THEN JsNaN
       ELSE JsInt(TotalDistance(SortAscending(whole(lists[1])),
                                SortAscending(whole(lists[2])), 1))

\* Puzzle inputs: rows of two integers written out in decimal, in one of
\* the layouts below.
SolveInts == {-3, 0, 12}
Rows == ListsUpTo(SolveInts \X SolveInts, MaxLines)
Layouts ==
    { [lead |-> <<>>, sep |-> <<" ", " ", " ">>, trail |-> <<>>, last |-> <<>>],
      [lead |-> <<>>, sep |-> <<" ">>, trail |-> <<>>, last |-> <<"\n">>],
      [lead |-> <<" ">>, sep |-> <<"\t">>, trail |-> <<"\r">>, last |-> <<"\n">>] }

RECURSIVE Render(_, _)
Render(rows, layout) ==
    IF Len(rows) = 0 THEN <<>>
    ELSE layout.lead \o String(JsInt(rows[1][1])) \o layout.sep
         \o String(JsInt(rows[1][2])) \o layout.trail
         \o (IF Len(rows) = 1 THEN layout.last ELSE <<"\n">> \o Render(Tail(rows), layout))

\* The example of the README, in the layout of the puzzle site.
ExampleRows == << <<3, 4>>, <<4, 3>>, <<2, 5>>, <<1, 3>>, <<3, 9>>, <<3, 3>> >>
ExampleLayout == [lead |-> <<>>, sep |-> <<" ", " ", " ">>, trail |-> <<>>, last |-> <<"\n">>]

\* solve(input) for the input that writes out rows in the given layout
Solve(rows, layout) ==
    /\ vo.class = "none"
    /\ voRaw' = JsString(Render(rows, layout))
    /\ vo' = [class |-> "solve", out |-> solve(voRaw'.s), rows |-> rows]
    /\ UNCHANGED <<cwd, sp, spSegs, spLast, nAppends, voLast, fs, fmLast, nOps, nFailed>>

SolveInit ==
    /\ cwd = <<SEP>>
    /\ PathIdle
    /\ VOIdle
    /\ FMIdle

SolveNext ==
    /\ vo.class = "none"
    /\ \/ \E rows \in Rows : \E layout \in Layouts : Solve(rows, layout)
       \/ Solve(ExampleRows, ExampleLayout)

SpecSolve == SolveInit /\ [][SolveNext]_vars

----------------------------------------------------------------------------
(* Properties of SafePath *)

\* a is a prefix of b, component by component.
IsCompPrefix(a, b) == Len(a) <= Len(b) /\ SubSeq(b, 1, Len(a)) = a

\* Path c is directory b itself or a descendant of it (both absolute, normalized).
IsWithin(c, b) == IsCompPrefix(Components(b), Components(c))

\* The base with the segments written after it, separated by '/', normalized.
JoinedNormalized(wd, base, segs) ==
    resolve(wd, JoinSep(<<resolve(wd, base)>> \o segs))

\* C1: every SafePath instance, from the constructor or from append, has a
\* path that equals its resolved base path or starts with the base path
\* followed by the separator; sharing the base only as a string prefix
\* ('/a' and '/aa') never yields an instance.
C1_InstanceWithinBase ==
    sp.ok =>
        /\ getBasePath(sp) = resolve(cwd, spLast.base)
        /\ \/ toString(sp) = getBasePath(sp)
           \/ startsWith(getValue(sp), getBasePath(sp) \o <<SEP>>)
        /\ IsWithin(toString(sp), getBasePath(sp))

C1_Witness ==
    /\ spLast.op = "append"
    /\ spLast.out.ok
    /\ sp = spLast.out
    /\ Len(toString(sp)) > Len(getBasePath(sp))

\* C2: when the joined and normalized path lies outside the base, the
\* constructor throws a path-traversal error naming the resolved candidate
\* and the resolved base, and no instance is produced.
C2_EscapeThrows ==
    (/\ spLast.op = "new"
     /\ ~IsWithin(JoinedNormalized(cwd, spLast.base, spLast.segs), resolve(cwd, spLast.base)))
    => /\ ~spLast.out.ok
       /\ ~sp.ok
       /\ spLast.out.error.name = "PathTraversal"
       /\ spLast.out.error.resolved = JoinedNormalized(cwd, spLast.base, spLast.segs)
       /\ spLast.out.error.base = resolve(cwd, spLast.base)

C2_Witness ==
    /\ spLast.op = "new"
    /\ spLast.segs = <<DOTDOT, <<"a", "a">> >>
    /\ spLast.base = <<SEP, "a">>
    /\ spLast.out.error.name = "PathTraversal"

\* C3: for every base, the root included, segments whose joined and
\* normalized path is the base or a descendant of it construct
\* successfully, and toString() is that normalized path.
C3_DescendantConstructs ==
    (/\ spLast.op = "new"
     /\ IsWithin(JoinedNormalized(cwd, spLast.base, spLast.segs), resolve(cwd, spLast.base)))
    => /\ spLast.out.ok
       /\ toString(spLast.out) = JoinedNormalized(cwd, spLast.base, spLast.segs)
       /\ startsWith(toString(spLast.out), resolve(cwd, spLast.base))

\* C4: a segment that is an absolute path outside the base makes the
\* constructor throw.
C4_AbsoluteSegmentThrows ==
    (/\ spLast.op = "new"
     /\ \E i \in 1..Len(spLast.segs) :
           /\ isAbsolute(spLast.segs[i])
           /\ ~IsWithin(resolve(cwd, spLast.segs[i]), resolve(cwd, spLast.base)))
    => ~spLast.out.ok

\* C5: p.append(...T) on p = SafePath(B, ...S) succeeds exactly when
\* SafePath(B, ...S, ...T) does, with the same path and base; an append
\* that resolves above the base throws.
C5_AppendAsConstruct ==
    spLast.op = "append" =>
        /\ spLast.out.ok = SafePathNew(cwd, spLast.base, spLast.segs).ok
        /\ spLast.out.ok =>
              /\ toString(spLast.out) = toString(SafePathNew(cwd, spLast.base, spLast.segs))
              /\ getBasePath(spLast.out) = getBasePath(SafePathNew(cwd, spLast.base, spLast.segs))
        /\ ~IsWithin(JoinedNormalized(cwd, spLast.base, spLast.segs), resolve(cwd, spLast.base))
              => ~spLast.out.ok

C5_Witness ==
    /\ spLast.op = "append"
    /\ spLast.out.ok
    /\ Len(spLast.segs) = 2
    /\ Len(spSegs) = 2
    /\ toString(spLast.out) # getBasePath(spLast.out)

\* C29 as stated: the outcome of new SafePath(base, ...segs) is the same in
\* every working directory, for a relative base too.
C29_CwdIndependent ==
    spLast.op = "new" =>
        \A wd \in Cwds : SafePathNew(wd, spLast.base, spLast.segs) = spLast.out

\* The base an outcome was measured against: the instance's, or the one
\* the error names.
BaseOf(out) == IF out.ok THEN out.basePath ELSE out.error.base

\* C29, amended: with an absolute base the outcome is the same in every
\* working directory; a relative base is taken from the working directory
\* of the moment, and the outcome is that of the absolute base <cwd>/<base>.
C29_CwdOnlyForRelativeBase ==
    spLast.op = "new" =>
        IF isAbsolute(spLast.base)
        THEN \A wd \in Cwds : SafePathNew(wd, spLast.base, spLast.segs) = spLast.out
        ELSE LET absolute == (IF cwd = <<SEP>> THEN <<>> ELSE cwd) \o <<SEP>> \o spLast.base
             IN /\ BaseOf(spLast.out) = absolute
                /\ \A wd \in Cwds : SafePathNew(wd, absolute, spLast.segs) = spLast.out

C29_Witness ==
    /\ spLast.op = "new"
    /\ spLast.base = <<"a">>
    /\ cwd = <<SEP, "a">>
    /\ spLast.out.ok
    /\ spLast.out.basePath = <<SEP, "a", SEP, "a">>
    /\ SafePathNew(<<SEP>>, spLast.base, spLast.segs).basePath = <<SEP, "a">>

----------------------------------------------------------------------------
(* Properties of Year and Day *)

DigitChars == {"0", "1", "2", "3", "4", "5", "6", "7", "8", "9"}

\* s consists of decimal digits only, at least one.
IsDecimal(s) == Len(s) > 0 /\ \A i \in 1..Len(s) : s[i] \in DigitChars

\* The number a string of decimal digits denotes.
RECURSIVE DecimalValue(_)
DecimalValue(s) ==
    IF Len(s) = 0 THEN 0
    ELSE 10 * DecimalValue(SubSeq(s, 1, Len(s) - 1)) + DigitVal(s[Len(s)])

\* The two-digit, zero-padded form of d in 0..99.
TwoDigits(d) == <<Digits[(d \div 10) + 1], Digits[(d % 10) + 1]>>

\* The decimal string of d in 0..99.
DecimalString(d) == IF d < 10 THEN <<Digits[d + 1]>> ELSE TwoDigits(d)

HasPathChars(s) ==
    \E i \in 1..Len(s) :
        \/ s[i] \in {"/", "\\"}
        \/ i < Len(s) /\ s[i] = "." /\ s[i + 1] = "."

\* C8: Year(v) succeeds when the trimmed string form of v is exactly four
\* decimal digits denoting an integer in [2015, 2099], and then toNumber()
\* is that integer and toString() and toFolderName() are the four digits;
\* Year(v) throws when v is numerically outside the range, when its
\* (trimmed) string form is not four digits, and when it contains '/', '\'
\* or '..'.
C8_YearContract ==
    vo.class = "Year" =>
        LET str == trim(String(voRaw))
            fourDigits == Len(str) = 4 /\ IsDecimal(str)
            inRange == DecimalValue(str) \in 2015..2099
        IN /\ (fourDigits /\ inRange) =>
                 /\ vo.ok
                 /\ Year_toNumber(vo) = JsInt(DecimalValue(str))
                 /\ Year_toString(vo) = str
                 /\ Year_toFolderName(vo) = str
           /\ (fourDigits /\ ~inRange) => ~vo.ok
           /\ (voRaw.t = "number" /\ (voRaw.n < 20150 \/ voRaw.n > 20990)) => ~vo.ok
           /\ ~fourDigits => ~vo.ok
           /\ HasPathChars(String(voRaw)) => ~vo.ok

C8_Witness ==
    /\ vo.class = "Year"
    /\ vo.ok
    /\ voRaw = JsString(<<"2", "0", "9", "9">>)
    /\ Year_toFolderName(vo) = <<"2", "0", "9", "9">>

\* C9: for every integer d in [1, 25], as a number or as its decimal string,
\* Day(d) succeeds with toNumber() = d, toPaddedString() the two-digit form
\* and toFolderName() 'day' followed by it; Day throws for a number or a
\* decimal string outside [1, 25] and for any string containing '/', '\'
\* or '..'.
C9_DayContract ==
    vo.class = "Day" =>
        /\ \A d \in 1..25 :
              (voRaw = JsInt(d) \/ voRaw = JsString(DecimalString(d))) =>
                  /\ vo.ok
                  /\ Day_toNumber(vo) = JsInt(d)
                  /\ Day_toPaddedString(vo) = TwoDigits(d)
                  /\ Day_toFolderName(vo) = <<"d", "a", "y">> \o TwoDigits(d)
        /\ (voRaw.t = "number" /\ (voRaw.n < 10 \/ voRaw.n > 250)) => ~vo.ok
        /\ (voRaw.t = "string" /\ IsDecimal(voRaw.s) /\ DecimalValue(voRaw.s) \notin 1..25)
              => ~vo.ok
        /\ (voRaw.t = "string" /\ Len(voRaw.s) > 1 /\ voRaw.s[1] = "-" /\ IsDecimal(Tail(voRaw.s)))
              => ~vo.ok
        /\ (voRaw.t = "string" /\ HasPathChars(voRaw.s)) => ~vo.ok

C9_Witness ==
    /\ vo.class = "Day"
    /\ vo.ok
    /\ voRaw = JsString(<<"9">>)
    /\ Day_toFolderName(vo) = <<"d", "a", "y", "0", "9">>

\* C10: every Day instance holds an integer in [1, 25]: toNumber() is such
\* an integer, toPaddedString() is its two digits and toFolderName() is
\* 'day' followed by them, whatever raw input the constructor accepted.
C10_DayHoldsInteger ==
    (vo.class = "Day" /\ vo.ok) =>
        \E d \in 1..25 :
            /\ Day_toNumber(vo) = JsInt(d)
            /\ Day_toPaddedString(vo) = TwoDigits(d)
            /\ Day_toFolderName(vo) = <<"d", "a", "y">> \o TwoDigits(d)

----------------------------------------------------------------------------
(* Properties of Language *)

\* Each capital letter with its small letter.
CasePairs ==
    { <<"A", "a">>, <<"B", "b">>, <<"C", "c">>, <<"D", "d">>, <<"E", "e">>, <<"F", "f">>,
      <<"G", "g">>, <<"H", "h">>, <<"I", "i">>, <<"J", "j">>, <<"K", "k">>, <<"L", "l">>,
      <<"M", "m">>, <<"N", "n">>, <<"O", "o">>, <<"P", "p">>, <<"Q", "q">>, <<"R", "r">>,
      <<"S", "s">>, <<"T", "t">>, <<"U", "u">>, <<"V", "v">>, <<"W", "w">>, <<"X", "x">>,
      <<"Y", "y">>, <<"Z", "z">> }

\* The characters of the class [A-Za-z0-9+#_-].
Whitelist ==
    {p[1] : p \in CasePairs} \cup {p[2] : p \in CasePairs} \cup DigitChars
        \cup {"+", "#", "_", "-"}

\* s with every capital letter replaced by its small letter.
Lowered(s) ==
    [i \in 1..Len(s) |->
        IF \E p \in CasePairs : p[1] = s[i]
        THEN (CHOOSE p \in CasePairs : p[1] = s[i])[2]
        ELSE s[i]]

\* s without the blanks at its two ends.
RECURSIVE Stripped(_)
Stripped(s) ==
    IF Len(s) = 0 THEN s
    ELSE IF s[1] = " " THEN Stripped(Tail(s))
    ELSE IF s[Len(s)] = " " THEN Stripped(SubSeq(s, 1, Len(s) - 1))
    ELSE s

\* C11: for every string s of 1 to 50 characters of the class
\* [A-Za-z0-9+#_-] that does not start with '-' or '.', Language(s)
\* succeeds, toString() is s, and toNormalized() and toFolderName() are s in
\* lower case.
C11_LanguageContract ==
    (/\ vo.class = "Language"
     /\ voRaw.t = "string"
     /\ Len(voRaw.s) \in 1..50
     /\ \A i \in 1..Len(voRaw.s) : voRaw.s[i] \in Whitelist
     /\ voRaw.s[1] \notin {"-", "."})
    => /\ vo.ok
       /\ Language_toString(vo) = voRaw.s
       /\ Language_toNormalized(vo) = Lowered(voRaw.s)
       /\ Language_toFolderName(vo) = Lowered(voRaw.s)

C11_Witness ==
    /\ vo.class = "Language"
    /\ vo.ok
    /\ voRaw = JsString(<<"C", "+", "+">>)
    /\ Language_toFolderName(vo) = <<"c", "+", "+">>

\* C12 as stated: Language(s) throws for every input that is not a string,
\* is empty or consists of blanks only, for every string containing a
\* character outside the class, for every string starting with '.' or '-',
\* and for every string of more than 50 characters.
C12_LanguageRejects ==
    (/\ vo.class = "Language"
     /\ \/ voRaw.t # "string"
        \/ Len(Stripped(voRaw.s)) = 0
        \/ \E i \in 1..Len(voRaw.s) : voRaw.s[i] \notin Whitelist
        \/ voRaw.s[1] \in {".", "-"}
        \/ Len(voRaw.s) > 50)
    => ~vo.ok

\* C12, amended: the same with the character class, the first character
\* and the length taken of the string without the blanks at its ends.
C12_LanguageRejectsTrimmed ==
    (/\ vo.class = "Language"
     /\ \/ voRaw.t # "string"
        \/ Len(Stripped(voRaw.s)) = 0
        \/ \E i \in 1..Len(Stripped(voRaw.s)) : Stripped(voRaw.s)[i] \notin Whitelist
        \/ Stripped(voRaw.s)[1] \in {".", "-"}
        \/ Len(Stripped(voRaw.s)) > 50)
    => ~vo.ok

C12_Witness ==
    /\ vo.class = "Language"
    /\ voRaw = JsString(<<" ">> \o Repeat_a(51))
    /\ ~vo.ok
    /\ vo.error.name = "is too long"

----------------------------------------------------------------------------
(* Properties of the shared validators *)

\* s from its first character that is not a blank.
RECURSIVE LeftStripped(_)
LeftStripped(s) == IF Len(s) > 0 /\ s[1] = " " THEN LeftStripped(Tail(s)) ELSE s

\* The longest run of decimal digits at the start of s.
RECURSIVE DigitPrefix(_)
DigitPrefix(s) ==
    IF Len(s) > 0 /\ s[1] \in DigitChars THEN <<s[1]>> \o DigitPrefix(Tail(s)) ELSE <<>>

\* A string is numeric when, after leading blanks and an optional sign, it
\* starts with a decimal digit; its base-10 integer value is that of the
\* digits it starts with.
Unsigned(s) ==
    IF Len(LeftStripped(s)) > 0 /\ LeftStripped(s)[1] \in {"+", "-"}
    THEN Tail(LeftStripped(s)) ELSE LeftStripped(s)
IsNegative(s) == Len(LeftStripped(s)) > 0 /\ LeftStripped(s)[1] = "-"
IsNumericString(s) == Len(DigitPrefix(Unsigned(s))) > 0
IntegerValue(s) ==
    (IF IsNegative(s) THEN -1 ELSE 1) * DecimalValue(DigitPrefix(Unsigned(s)))

\* The decimal text of an integer.
IntegerText(n) == IF n < 0 THEN <<"-">> \o NatToStr(0 - n) ELSE NatToStr(n)

\* C13: validateNumberInRange(value, min, max, kind) returns n for an
\* integer number n, or a numeric string of base-10 integer value n, with
\* min <= n <= max, and touches nothing else; for null, undefined, a
\* non-numeric string, NaN and the infinities it throws
\* 'Invalid <kind>: "<value>" is not a valid number'; for an integer n below
\* min or above max it throws 'Invalid <kind>: <n> must be between <min>
\* and <max>'.
C13_ValidateNumberInRange ==
    vo.class = "validateNumberInRange" =>
        LET isInt == voRaw.t = "number" /\ voRaw.n % 10 = 0
            isNum == voRaw.t = "string" /\ IsNumericString(voRaw.s)
            n == IF isInt THEN voRaw.n \div 10 ELSE IntegerValue(voRaw.s)
            invalid == \/ voRaw.t \in {"null", "undefined", "NaN", "Infinity", "-Infinity"}
                       \/ voRaw.t = "string" /\ ~IsNumericString(voRaw.s)
            text == CASE voRaw.t = "string" -> voRaw.s
                      [] voRaw.t = "null" -> <<"n", "u", "l", "l">>
                      [] voRaw.t = "undefined" -> <<"u", "n", "d", "e", "f", "i", "n", "e", "d">>
                      [] voRaw.t = "NaN" -> <<"N", "a", "N">>
                      [] voRaw.t = "Infinity" -> <<"I", "n", "f", "i", "n", "i", "t", "y">>
                      [] voRaw.t = "-Infinity" -> <<"-", "I", "n", "f", "i", "n", "i", "t", "y">>
                      [] OTHER -> <<>>
        IN /\ fs = EmptyFs
           /\ ((isInt \/ isNum) /\ vo.min <= n /\ n <= vo.max) =>
                 /\ vo.out.ok
                 /\ vo.out.num = JsInt(n)
           /\ invalid =>
                 /\ ~vo.out.ok
                 /\ vo.out.error.name = "is not a valid number"
                 /\ vo.out.error.type = vo.type
                 /\ vo.out.error.text = text
           /\ ((isInt \/ isNum) /\ (n < vo.min \/ n > vo.max)) =>
                 /\ ~vo.out.ok
                 /\ vo.out.error.name = "must be between"
                 /\ vo.out.error.type = vo.type
                 /\ vo.out.error.text = IntegerText(n)
                 /\ vo.out.error.min = vo.min
                 /\ vo.out.error.max = vo.max

C13_Witness ==
    /\ vo.class = "validateNumberInRange"
    /\ voRaw = JsNull
    /\ vo.type = "day"
    /\ ~vo.out.ok
    /\ vo.out.error.text = <<"n", "u", "l", "l">>

----------------------------------------------------------------------------
(* Properties of the errors *)

\* The last constructor or validator call threw.
VOFailed ==
    CASE vo.class \in {"Year", "Day", "Language"} -> ~vo.ok
      [] vo.class \in {"validateNumberInRange", "SafePath"} -> ~vo.out.ok
      [] OTHER -> FALSE

\* The message of the error it threw.
VOMessage ==
    CASE vo.class \in {"Year", "Day", "Language"} -> message(vo.error)
      [] vo.class = "validateNumberInRange" -> message(vo.out.error)
      [] vo.class = "SafePath" -> pathMessage(vo.out.error)
      [] OTHER -> <<>>

\* The kind of input the failed call was about, as a message names it.
VOKind ==
    CASE vo.class = "Year" -> <<"I", "n", "v", "a", "l", "i", "d", " ", "y", "e", "a", "r">>
      [] vo.class = "Day" -> <<"I", "n", "v", "a", "l", "i", "d", " ", "d", "a", "y">>
      [] vo.class = "Language" ->
            <<"I", "n", "v", "a", "l", "i", "d", " ", "l", "a", "n", "g", "u", "a", "g", "e">>
      [] vo.class = "validateNumberInRange" ->
            <<"I", "n", "v", "a", "l", "i", "d", " ">> \o TypeChars(vo.type)
      [] vo.class = "SafePath" ->
            <<"P", "a", "t", "h", " ", "t", "r", "a", "v", "e", "r", "s", "a", "l">>
      [] OTHER -> <<>>

\* The name of the error, for the three classes of value objects and the validator.
VOErrorName ==
    CASE vo.class \in {"Year", "Day", "Language"} -> vo.error.name
      [] vo.class = "validateNumberInRange" -> vo.out.error.name
      [] vo.class = "SafePath" -> vo.out.error.name
      [] OTHER -> "none"

\* The raw value as the caller wrote it, between quotes where it is a string
\* form; for SafePath, the raw segments.
RawText == IF voRaw.t = "segments" THEN <<>> ELSE String(voRaw)

\* The number a raw year or day was coerced to, as text: the integer a
\* string starts with; a value that is not a string converted to a number,
\* except by Day, which leaves it as given.
CoercedText ==
    IF voRaw.t = "string" THEN IntegerText(IntegerValue(voRaw.s))
    ELSE IF vo.class = "Day" THEN String(voRaw)
    ELSE String(Number(voRaw))

\* The bounds of the failed range test, as the message states them.
BoundsText ==
    CASE vo.class = "Year" -> <<"b", "e", "t", "w", "e", "e", "n", " ", "2", "0", "1", "5",
                                " ", "a", "n", "d", " ", "2", "0", "9", "9">>
      [] vo.class = "Day" -> <<"b", "e", "t", "w", "e", "e", "n", " ", "1",
                               " ", "a", "n", "d", " ", "2", "5">>
      [] OTHER -> <<"b", "e", "t", "w", "e", "e", "n", " ">> \o IntegerText(vo.min)
                    \o <<" ", "a", "n", "d", " ">> \o IntegerText(vo.max)

\* C14 as stated: every failure of Year, Day, Language, SafePath or the
\* range validator comes as an error from the call itself, and its message
\* names the kind of input, contains the raw value exactly as the caller
\* supplied it (for SafePath, a segment the caller supplied), and states
\* the violated constraint.
C14_ErrorCarriesRawValue ==
    VOFailed =>
        /\ VOErrorName # "none"
        /\ startsWith(VOMessage, VOKind)
        /\ IF vo.class = "SafePath"
           THEN \E i \in 1..Len(voRaw.segs) :
                    Len(voRaw.segs[i]) > 0 /\ includes(VOMessage, voRaw.segs[i])
           ELSE includes(VOMessage, RawText)
        /\ VOErrorName = "must be between" => includes(VOMessage, BoundsText)

\* C14, amended: the message names the kind of input and states the
\* violated constraint, and it contains, between quotes, the raw value as
\* supplied in the not-a-valid-number, four-digit, path-character and
\* Language character, first-character and length errors; the range error
\* contains the number the value was coerced to (the integer a string
\* starts with; for Day a value that is not a string as given) and both
\* bounds; the Language
\* non-empty-string error contains no value; the path-traversal error
\* contains the resolved candidate path and the resolved base path.
C14_ErrorContents ==
    VOFailed =>
        /\ VOErrorName # "none"
        /\ startsWith(VOMessage, VOKind)
        /\ VOErrorName \in {"is not a valid number", "must be exactly 4 digits",
                            "contains illegal path characters", "contains illegal characters",
                            "cannot start with . or -", "is too long"}
              => includes(VOMessage, QUOTE \o RawText \o QUOTE)
        /\ VOErrorName = "must be between" =>
              /\ includes(VOMessage, <<":", " ">> \o CoercedText \o <<" ", "m", "u", "s", "t">>)
              /\ includes(VOMessage, BoundsText)
        /\ VOErrorName = "must be a non-empty string" =>
              /\ vo.class = "Language"
              /\ voRaw.t # "string" \/ Len(Stripped(voRaw.s)) = 0
        /\ vo.class = "SafePath" =>
              /\ includes(VOMessage, QUOTE \o JoinedNormalized(cwd, voRaw.s, voRaw.segs) \o QUOTE)
              /\ includes(VOMessage, QUOTE \o resolve(cwd, voRaw.s) \o QUOTE)

C14_Witness ==
    /\ vo.class = "Day"
    /\ voRaw = JsString(<<" ", "2", "9", "a">>)
    /\ ~vo.ok
    /\ vo.error.name = "must be between"
    /\ vo.error.text = <<"2", "9">>

----------------------------------------------------------------------------
(* Properties of the instances *)

\* C15: once a Year, Day, Language or SafePath exists, no operation on it
\* (an accessor, equals, append, an attempt to assign, add or delete a
\* property, a write through a value it handed out) changes what its
\* accessors return; append returns a SafePath with the same base path and
\* leaves the receiver's path as it was.
C15_Immutable ==
    [][ObjAlive =>
          /\ Accessors(vo') = Accessors(vo)
          /\ (voLast'.op = "append" /\ voLast'.result.ok) =>
                /\ getBasePath(voLast'.result) = getBasePath(vo.out)
                /\ toString(vo'.out) = toString(vo.out)]_vars

\* The canonical value a raw input stands for: the integer of a year, the
\* number of a day, the lower-case name of a language, the resolved path.
Canonical(class, raw) ==
    CASE class = "Year" -> DecimalValue(Stripped(String(raw)))
      [] class = "Day" -> IF raw.t = "string" THEN 10 * IntegerValue(raw.s) ELSE Number(raw).n
      [] class = "Language" -> Lowered(Stripped(raw.s))
      [] class = "SafePath" -> JoinedNormalized(cwd, raw.s, raw.segs)

\* C16: two instances built from the same raw input are equal to each
\* other, in both directions; equals is true exactly when the canonical
\* values of the two instances match, and false for an argument that is no
\* instance of the receiver's class.
C16_Equals ==
    voLast.op = "equals" =>
        /\ (InstanceOf(voLast.other, vo.class) /\ voLast.otherRaw = voRaw) =>
              voLast.result /\ voLast.reverse
        /\ InstanceOf(voLast.other, vo.class) =>
              /\ voLast.result <=>
                    Canonical(vo.class, voRaw) = Canonical(vo.class, voLast.otherRaw)
              /\ voLast.reverse = voLast.result
        /\ ~InstanceOf(voLast.other, vo.class) => ~voLast.result

\* A single non-empty path component without '/', '\' or '..'.
SingleComponent(name) ==
    /\ Len(name) > 0
    /\ ~includes(name, <<"/">>) /\ ~includes(name, <<"\\">>) /\ ~includes(name, DOTDOT)

\* C25: for every Year y, Day d and Language l, and every absolute base B
\* other than the root, new SafePath(B, y.toFolderName(), d.toFolderName(),
\* l.toFolderName()) is constructed and its path is B/<y>/<d>/<l>, each
\* folder name being a single component. The instance at hand is combined
\* with a fixed instance of each of the other two classes.
C25_FolderNamesCompose ==
    (ObjAlive /\ vo.class \in {"Year", "Day", "Language"}) =>
        LET y == IF vo.class = "Year" THEN vo ELSE YearNew(JsInt(2024))
            d == IF vo.class = "Day" THEN vo ELSE DayNew(JsInt(5))
            l == IF vo.class = "Language" THEN vo ELSE LanguageNew(JsString(<<"g", "o">>))
            names == <<Year_toFolderName(y), Day_toFolderName(d), Language_toFolderName(l)>>
        IN /\ \A i \in 1..3 : SingleComponent(names[i])
           /\ \A B \in {b \in BasePaths : isAbsolute(b) /\ b # <<SEP>>} :
                 LET p == SafePathNew(cwd, B, names)
                 IN /\ p.ok
                    /\ toString(p) = JoinSep(<<B>> \o names)

\* C28 as stated: for every raw value d that Day accepts, padDay(d) is
\* new Day(d).toPaddedString().
C28_PadDayAsDay ==
    vo.class = "padDay" => vo.out = Day_toPaddedString(vo.day)

\* C28, amended: padDay(d) is new Day(d).toPaddedString(), and 'day' +
\* padDay(d) the folder name of the day, exactly when d is not a string or
\* is a string of one or two decimal digits; any other string Day accepts
\* is padded as it is written.
C28_PadDayOfDigits ==
    vo.class = "padDay" =>
        LET plain == voRaw.t # "string" \/ (Len(voRaw.s) <= 2 /\ IsDecimal(voRaw.s))
        IN /\ plain <=> vo.out = Day_toPaddedString(vo.day)
           /\ plain <=> <<"d", "a", "y">> \o vo.out = Day_toFolderName(vo.day)
           /\ ~plain => vo.out = padStart2(voRaw.s)

C28_Witness ==
    /\ vo.class = "padDay"
    /\ voRaw = JsString(<<" ", "5">>)
    /\ vo.out = <<" ", "5">>
    /\ Day_toPaddedString(vo.day) = <<"0", "5">>

----------------------------------------------------------------------------
(* Properties of the folderManager calls *)

IsNewCall(c) == c \in {"new Year", "new Day", "new Language"}
IsFsCall(c) == c \in {"existsSync", "mkdirSync", "writeFileSync"}
IsFsMutation(c) == c \in {"mkdirSync", "writeFileSync"}

\* The k-th argument of the last call is one its value object accepts.
ArgValid(k) ==
    CASE k = 1 -> YearNew(fmLast.args[1].raw).ok
      [] k = 2 -> DayNew(fmLast.args[2].raw).ok
      [] k = 3 -> LanguageNew(fmLast.args[3].raw).ok

\* C6: in createYearFolder, createPuzzleFolder and createLanguageFolder
\* every raw argument has been converted to its value object before the
\* first filesystem call; when an argument is invalid the call throws and
\* the filesystem is exactly as before, no filesystem call having been made.
C6_ValidateBeforeFilesystem ==
    fmLast.op # "none" =>
        LET tr == fmLast.trace
            raws == {k \in 1..Len(fmLast.args) : ~fmLast.args[k].isVO}
            news == {i \in 1..Len(tr) : IsNewCall(tr[i].call)}
            fsCalls == {i \in 1..Len(tr) : IsFsCall(tr[i].call)}
        IN /\ \A i \in fsCalls, j \in news : j < i
           /\ fsCalls # {} =>
                 /\ Cardinality(news) = Cardinality(raws)
                 /\ \A k \in 1..Len(fmLast.args) : ArgValid(k)
           /\ (\E k \in 1..Len(fmLast.args) : ~ArgValid(k)) =>
                 /\ ~fmLast.ok
                 /\ fmLast.exc.class = "validation"
                 /\ fsCalls = {}
                 /\ fs = fmLast.before

C6_Witness ==
    /\ fmLast.op = "createPuzzleFolder"
    /\ ArgValid(1)
    /\ ~ArgValid(2)
    /\ fmLast.exc.class = "validation"
    /\ fmLast.exc.verror.type = "day"
    /\ fs = fmLast.before

\* C7: after any sequence of calls with arbitrary arguments, every
\* directory and file the calls created or wrote lies inside <cwd>/src:
\* whatever exists is inside it or is the working directory or one of its
\* ancestors, and no mkdirSync or writeFileSync was given a path outside it.
C7_NothingOutsideBase ==
    /\ \A p \in fs.dirs \cup DOMAIN fs.files :
          IsWithin(p, PathOf(Components(cwd) \o <<STR_src>>)) \/ p \in AncestorsOrSelf(cwd)
    /\ \A i \in 1..Len(fmLast.trace) :
          IsFsMutation(fmLast.trace[i].call) =>
              IsWithin(fmLast.trace[i].path, PathOf(Components(cwd) \o <<STR_src>>))

C7_Witness ==
    /\ fmLast.op = "createYearFolder"
    /\ fmLast.args[1].raw = JsString(<<".", ".", "/", ".", ".">>)
    /\ ~fmLast.ok
    /\ DOMAIN fs.files # {}

----------------------------------------------------------------------------
(* Properties of the folder tree *)

\* <cwd>/src
SrcDir == PathOf(Components(cwd) \o <<STR_src>>)

\* The folder names a valid year and a valid day stand for: the four digits
\* of the year, and 'day' with the two digits of the day.
YearName(raw) == Stripped(String(raw))
DayName(raw) ==
    <<"d", "a", "y">>
        \o TwoDigits(IF raw.t = "string" THEN IntegerValue(raw.s) ELSE raw.n \div 10)

\* The arguments are a four-digit year in range and a whole day from 1 to 25.
ValidYearDay(y, d) ==
    /\ Len(YearName(y.raw)) = 4 /\ IsDecimal(YearName(y.raw))
    /\ DecimalValue(YearName(y.raw)) \in 2015..2099
    /\ \/ d.raw.t = "string" /\ IsDecimal(d.raw.s) /\ DecimalValue(d.raw.s) \in 1..25
       \/ d.raw.t = "number" /\ d.raw.n % 10 = 0 /\ (d.raw.n \div 10) \in 1..25

PuzzleDir(y, d) == PathOf(Components(SrcDir) \o <<YearName(y.raw), DayName(d.raw)>>)

Child(dir, name) == PathOf(Components(dir) \o <<name>>)

\* C17 as stated: createPuzzleFolder(y, d) with a valid year and day
\* returns <cwd>/src/<yyyy>/day<DD>; afterwards that folder exists and
\* holds README.md and input/ with .gitkeep in it, and
\* puzzleFolderExists(y, d) is true.
C17_PuzzleFolder ==
    (/\ fmLast.op = "createPuzzleFolder"
     /\ ValidYearDay(fmLast.args[1], fmLast.args[2]))
    => LET dir == PuzzleDir(fmLast.args[1], fmLast.args[2])
       IN /\ fmLast.ok
          /\ fmLast.ret = dir
          /\ dir \in fs.dirs
          /\ Child(dir, STR_README_md) \in DOMAIN fs.files
          /\ Child(dir, STR_input) \in fs.dirs
          /\ Child(Child(dir, STR_input), STR_gitkeep) \in DOMAIN fs.files
          /\ Answer(puzzleFolderExists(cwd, fmLast.args[1], fmLast.args[2]), fs) = Chars_true

\* C17, amended: the same, with .gitkeep in input/ whenever the call itself
\* made input/; an input/ folder that was there before is left as it is.
C17_PuzzleFolderOwnInput ==
    (/\ fmLast.op = "createPuzzleFolder"
     /\ ValidYearDay(fmLast.args[1], fmLast.args[2]))
    => LET dir == PuzzleDir(fmLast.args[1], fmLast.args[2])
       IN /\ fmLast.ok
          /\ fmLast.ret = dir
          /\ dir \in fs.dirs
          /\ Child(dir, STR_README_md) \in DOMAIN fs.files
          /\ Child(dir, STR_input) \in fs.dirs
          /\ Child(dir, STR_input) \notin fmLast.before.dirs =>
                Child(Child(dir, STR_input), STR_gitkeep) \in DOMAIN fs.files
          /\ Child(dir, STR_input) \in fmLast.before.dirs =>
                /\ fs.dirs = fmLast.before.dirs
                /\ \A f \in DOMAIN fs.files :
                      f \in DOMAIN fmLast.before.files \/ f = Child(dir, STR_README_md)
          /\ Answer(puzzleFolderExists(cwd, fmLast.args[1], fmLast.args[2]), fs) = Chars_true

C17_Witness ==
    /\ fmLast.op = "createPuzzleFolder"
    /\ fmLast.ok
    /\ fmLast.args[2].raw = JsString(<<"5">>)
    /\ fmLast.ret = PathOf(Components(cwd) \o <<STR_src, <<"2", "0", "2", "4">>,
                                                   <<"d", "a", "y", "0", "5">> >>)
    /\ Child(fmLast.ret, STR_input) \in fmLast.before.dirs
    /\ Child(Child(fmLast.ret, STR_input), STR_gitkeep) \notin DOMAIN fs.files
    /\ Child(fmLast.ret, STR_README_md) \in DOMAIN fs.files

\* The files a language folder is to hold: the two of the language's
\* template, or solution.txt for a language without one.
ExpectedFiles(name) ==
    IF Lowered(name) = <<"p", "y", "t", "h", "o", "n">>
    THEN {FILE_solution_py, FILE_test_solution_py}
    ELSE {FILE_solution_txt}

\* C18: createLanguageFolder with a valid year, day and language L returns
\* a path whose last component is L in lower case; that folder exists
\* afterwards and holds the template files of L.
C18_LanguageFolder ==
    (/\ fmLast.op = "createLanguageFolder"
     /\ ValidYearDay(fmLast.args[1], fmLast.args[2])
     /\ LanguageNew(fmLast.args[3].raw).ok)
    => LET name == Stripped(fmLast.args[3].raw.s)
           dir == Child(PuzzleDir(fmLast.args[1], fmLast.args[2]), Lowered(name))
       IN /\ fmLast.ok
          /\ fmLast.ret = dir
          /\ dir \in fs.dirs
          /\ \A f \in ExpectedFiles(name) : Child(dir, f) \in DOMAIN fs.files

\* The folders directly below dir.
SubDirs(dir) ==
    {p \in fs.dirs : Len(Components(p)) = Len(Components(dir)) + 1 /\ IsWithin(p, dir)}

\* C19: after any sequence of create calls that all succeeded, every year
\* folder holds README.md and every day folder holds README.md and input/,
\* whichever call brought the folder into existence.
C19_FoldersComplete ==
    nFailed = 0 =>
        \A y \in SubDirs(SrcDir) :
            /\ Child(y, STR_README_md) \in DOMAIN fs.files
            /\ \A d \in SubDirs(y) :
                  /\ Child(d, STR_README_md) \in DOMAIN fs.files
                  /\ Child(d, STR_input) \in fs.dirs

\* C23: for every name L the Language whitelist admits, getLanguageTemplate
\* gives the file array defined for L in lower case, or null when none is
\* defined (the generic template then being used); createLanguageFolder
\* with a valid year and day succeeds and writes at least one file.
C23_TemplateSelection ==
    (/\ fmLast.op = "createLanguageFolder"
     /\ ValidYearDay(fmLast.args[1], fmLast.args[2])
     /\ LanguageNew(fmLast.args[3].raw).ok)
    => LET name == Stripped(fmLast.args[3].raw.s)
           found == getLanguageTemplate(name)
       IN /\ IF Lowered(name) \in DOMAIN templates
             THEN found.isArray /\ found.files = templates[Lowered(name)]
             ELSE found.isNull
          /\ fmLast.ok
          /\ \E i \in 1..Len(fmLast.trace) : fmLast.trace[i].call = "writeFileSync"

\* C24: every path a folderManager call gives to existsSync, mkdirSync or
\* writeFileSync is the string value of a SafePath instance whose base is
\* <cwd>/src.
C24_PathsFromSafePath ==
    \A i \in 1..Len(fmLast.trace) :
        IsFsCall(fmLast.trace[i].call) =>
            /\ fmLast.trace[i].from.ok
            /\ getBasePath(fmLast.trace[i].from) = SrcDir
            /\ fmLast.trace[i].path = toString(fmLast.trace[i].from)

IsCreate(op) == op \in {"createYearFolder", "createPuzzleFolder", "createLanguageFolder"}

\* C26: a create call leaves every file that existed before it with the
\* content it had.
C26_ExistingFilesKept ==
    IsCreate(fmLast.op) =>
        \A p \in DOMAIN fmLast.before.files :
            /\ p \in DOMAIN fs.files
            /\ fs.files[p] = fmLast.before.files[p]

\* C27: a create call that succeeded, made again with the same arguments,
\* succeeds again, returns the same path and leaves the directories, the
\* files and their content as the first call left them.
C27_Idempotent ==
    [][(/\ IsCreate(fmLast.op) /\ fmLast.ok
        /\ fmLast'.op = fmLast.op /\ fmLast'.args = fmLast.args)
       => (/\ fmLast'.ok
           /\ fmLast'.ret = fmLast.ret
           /\ fs' = fs)]_vars

\* A language folder has been made a second time: its template files were
\* written again and nothing is different.
C27_Witness ==
    /\ fmLast.op = "createLanguageFolder"
    /\ fmLast.ok
    /\ nOps = 2
    /\ fmLast.ret \in fmLast.before.dirs
    /\ \E i \in 1..Len(fmLast.trace) :
          /\ fmLast.trace[i].call = "writeFileSync"
          /\ fmLast.trace[i].path \in DOMAIN fmLast.before.files
    /\ fs = fmLast.before

----------------------------------------------------------------------------
(* Properties of the command line *)

\* The word is there and not empty.
Given(args, i) == i <= Len(args) /\ Len(args[i]) > 0

\* What is wrong with a command line, if anything.
CommandMissing(args) == ~Given(args, 1)
CommandUnknown(args) == Given(args, 1) /\ args[1] \notin {STR_year, STR_puzzle, STR_language}
ArgumentMissing(args) ==
    /\ Given(args, 1)
    /\ \/ args[1] = STR_year /\ ~Given(args, 2)
       \/ args[1] = STR_puzzle /\ ~(Given(args, 2) /\ Given(args, 3))
       \/ args[1] = STR_language /\ ~(Given(args, 2) /\ Given(args, 3) /\ Given(args, 4))
ArgumentInvalid(args) ==
    /\ Given(args, 1) /\ args[1] \in {STR_year, STR_puzzle, STR_language}
    /\ ~ArgumentMissing(args)
    /\ \/ ~YearNew(JsString(args[2])).ok
       \/ args[1] \in {STR_puzzle, STR_language} /\ ~DayNew(JsString(args[3])).ok
       \/ args[1] = STR_language /\ ~LanguageNew(JsString(args[4])).ok

\* C20: main ends with a non-zero status and has changed nothing in the
\* filesystem when the command is missing or unknown, an argument is
\* missing, or a year, day or language word fails validation; the success
\* line is printed only after the folder operation has returned, as the
\* last thing main does, and it shows the path returned.
C20_CliFailsClosed ==
    fmLast.op = "main" =>
        LET run == fmLast.run
            printed == {i \in 1..Len(run.trace) : run.trace[i].call = "console.log"}
        IN /\ (\/ CommandMissing(fmLast.args) \/ CommandUnknown(fmLast.args)
               \/ ArgumentMissing(fmLast.args) \/ ArgumentInvalid(fmLast.args))
              => /\ run.exit # 0
                 /\ fs = fmLast.before
                 /\ \A i \in 1..Len(run.trace) : ~IsFsMutation(run.trace[i].call)
                 /\ printed = {}
           /\ \A i \in printed :
                 /\ i = Len(run.trace)
                 /\ run.exit = 0
                 /\ run.exc = NoExc
                 /\ run.trace[i].path \in fs.dirs
           /\ (\E k \in 1..Len(run.out) : run.out[k].kind \in
                    {"Created year folder", "Created puzzle folder", "Created solution folder"})
              => printed # {}

C20_Witness ==
    /\ fmLast.op = "main"
    /\ fmLast.args = <<STR_puzzle, <<"2", "0", "2", "4">>, <<"0">> >>
    /\ fmLast.run.exit = 1
    /\ fmLast.run.exc.class = "validation"
    /\ fs = fmLast.before

----------------------------------------------------------------------------
(* Day's validators against the shared ones *)

\* What a validator call comes to for its caller: the number returned, or
\* the message of the error thrown.
Outcome(r) == IF r.ok THEN [ok |-> TRUE, num |-> r.num, msg |-> <<>>]
              ELSE [ok |-> FALSE, num |-> JsUndefined, msg |-> message(r.error)]

\* C22: for every raw value given to Day, the range validation of Day.js
\* and validators.validateNumberInRange(v, 1, 25, 'day') both accept it and
\* return the same number, or both reject it with the same message.
C22_DayValidatesAsShared ==
    vo.class = "Day" =>
        Outcome(Day_validateNumberInRange(voRaw, DAY_MIN, DAY_MAX, "day"))
            = Outcome(validateNumberInRange(voRaw, DAY_MIN, DAY_MAX, "day"))

----------------------------------------------------------------------------
(* Properties of the Day 1 solution *)

\* The k-th smallest element of a list: the least value that at least k
\* elements do not exceed.
KthSmallest(xs, k) ==
    CHOOSE x \in {xs[i] : i \in 1..Len(xs)} :
        /\ Cardinality({i \in 1..Len(xs) : xs[i] <= x}) >= k
        /\ Cardinality({i \in 1..Len(xs) : xs[i] < x}) < k

RECURSIVE SumTo(_, _)
SumTo(f, n) == IF n = 0 THEN 0 ELSE f[n] + SumTo(f, n - 1)

Column(rows, c) == [i \in 1..Len(rows) |-> rows[i][c]]

\* C21: for an input whose lines each hold two integers, solve returns the
\* sum of the distances between the k-th smallest of the left column and
\* the k-th smallest of the right column; the example gives 11.
C21_SolveTotalDistance ==
    vo.class = "solve" =>
        /\ vo.out = JsInt(SumTo([k \in 1..Len(vo.rows) |->
                                    Abs(KthSmallest(Column(vo.rows, 1), k)
                                        - KthSmallest(Column(vo.rows, 2), k))],
                                Len(vo.rows)))
        /\ vo.rows = ExampleRows => vo.out = JsInt(11)

C21_Witness ==
    /\ vo.class = "solve"
    /\ vo.rows = ExampleRows
    /\ vo.out = JsInt(11)

----------------------------------------------------------------------------
(* Properties of two interleaved calls *)

RaceDone == fmLast.op = "race" /\ \A i \in {1, 2} : Len(fmLast.steps[i]) = 0

\* The tree after call i and then call j, each run from start to end.
OneAfterTheOther(i, j) ==
    Exec(Exec(fmLast.before, PlanOf(cwd, fmLast.calls[i]).steps, <<>>).fs,
         PlanOf(cwd, fmLast.calls[j]).steps, <<>>).fs

\* C30: when two create calls with valid arguments have run with their
\* filesystem calls interleaved, neither has thrown and the tree is the
\* one that running them one after the other, in one of the two orders,
\* gives.
C30_Serializable ==
    RaceDone =>
        /\ \A i \in {1, 2} : fmLast.exc[i] = NoExc
        /\ fs \in {OneAfterTheOther(1, 2), OneAfterTheOther(2, 1)}

====
